---- MODULE Spec2Model ----
(***************************************************************************)
(* Model of the option registry, the merge pipeline and the textual codec  *)
(* of package config (config.go, the option file and the validation file). *)
(*                                                                         *)
(* A Go string is a sequence of one-character strings, so that case        *)
(* folding, prefix stripping, splitting and trimming are computed and not  *)
(* assumed.  Indices of strings follow Go: Index is 0-based and -1 when    *)
(* absent, Slice(s, a, b) is s[a:b].                                       *)
(***************************************************************************)
EXTENDS Integers, Sequences, FiniteSets, TLC

\* root:  the node made by New, with its subcommand nodes inside
\* made:  whether New has returned a node
\* ENV, ARGS: the package variables of that name
\* disk:  the global, user and local config files
\* res:   the last call and what it returned
\* trace: the stages the last Load went through
\* rt:    what the last write-and-parse-back of the values gave
\* regs, ops: the number of registration calls and of later calls made
VARIABLES root, made, ENV, ARGS, disk, res, trace, rt, regs, ops

vars == <<root, made, ENV, ARGS, disk, res, trace, rt, regs, ops>>

-----------------------------------------------------------------------------
(* strings, as sequences of one-character strings

   CHOOSE out \in {e : x \in {v}} : TRUE  is  LET x == v IN e : it is written
   where v is the result of a call that e uses more than once. *)

LowerSeq ==
    <<"a","b","c","d","e","f","g","h","i","j","k","l","m",
      "n","o","p","q","r","s","t","u","v","w","x","y","z">>

UpperSeq ==
    <<"A","B","C","D","E","F","G","H","I","J","K","L","M",
      "N","O","P","Q","R","S","T","U","V","W","X","Y","Z">>

DigitSeq ==
    <<"0","1","2","3","4","5","6","7","8","9">>

\* position of character c in seq (1-based), 0 when absent
PosIn(seq, c) ==
    IF \E i \in 1..Len(seq) : seq[i] = c
    THEN CHOOSE i \in 1..Len(seq) : seq[i] = c /\ \A j \in 1..(i-1) : seq[j] # c
    ELSE 0

IsUpperCh(c) == PosIn(UpperSeq, c) > 0
IsLowerCh(c) == PosIn(LowerSeq, c) > 0
IsDigitCh(c) == PosIn(DigitSeq, c) > 0

ToUpperCh(c) == IF IsLowerCh(c) THEN UpperSeq[PosIn(LowerSeq, c)] ELSE c
ToLowerCh(c) == IF IsUpperCh(c) THEN LowerSeq[PosIn(UpperSeq, c)] ELSE c

\* strings.ToUpper, strings.ToLower
ToUpper(s) == IF s = <<>> THEN <<>> ELSE [i \in 1..Len(s) |-> ToUpperCh(s[i])]
ToLower(s) == IF s = <<>> THEN <<>> ELSE [i \in 1..Len(s) |-> ToLowerCh(s[i])]

\* s[a:b] and s[a:]
Slice(s, a, b) == SubSeq(s, a + 1, b)
SliceFrom(s, a) == SubSeq(s, a + 1, Len(s))

\* strings.Index(s, c) for a one-character separator
Index(s, c) == PosIn(s, c) - 1

\* strings.HasPrefix
HasPrefix(s, p) == Len(s) >= Len(p) /\ SubSeq(s, 1, Len(p)) = p

\* strings.Contains for a one-character pattern
ContainsCh(s, c) == PosIn(s, c) > 0

\* strings.Split(s, c) for a one-character separator
RECURSIVE Split(_, _)
Split(s, c) ==
    IF Index(s, c) = -1 THEN <<s>>
    ELSE CHOOSE out \in {<<Slice(s, 0, i)>> \o Split(SliceFrom(s, i + 1), c) :
                            i \in {Index(s, c)}} : TRUE

\* strings.Join(parts, sep)
RECURSIVE Join(_, _)
Join(parts, sep) ==
    IF parts = <<>> THEN <<>>
    ELSE IF Len(parts) = 1 THEN parts[1]
    ELSE parts[1] \o sep \o Join(Tail(parts), sep)

\* strings.Replace(s, from, to, -1) for one-character strings
ReplaceCh(s, from, to) ==
    IF s = <<>> THEN <<>> ELSE [i \in 1..Len(s) |-> IF s[i] = from THEN to ELSE s[i]]

\* strings.TrimLeft(s, cutset), strings.TrimRight(s, cutset)
RECURSIVE TrimLeft(_, _)
TrimLeft(s, cutset) ==
    IF s # <<>> /\ s[1] \in cutset THEN TrimLeft(Tail(s), cutset) ELSE s

RECURSIVE TrimRight(_, _)
TrimRight(s, cutset) ==
    IF s # <<>> /\ s[Len(s)] \in cutset
    THEN TrimRight(SubSeq(s, 1, Len(s) - 1), cutset) ELSE s

WhiteSpace == {" ", "\n", "\t", "\r"}

\* strings.TrimSpace
TrimSpace(s) == TrimRight(TrimLeft(s, WhiteSpace), WhiteSpace)

\* the tokens of bufio.Scanner with the default ScanLines split: the text is cut
\* at each newline, one trailing carriage return of a token is dropped, and
\* no empty final token is returned
RECURSIVE ScanLines(_)
ScanLines(text) ==
    IF text = <<>> THEN <<>>
    ELSE CHOOSE out \in
            {LET raw == IF n = -1 THEN text ELSE Slice(text, 0, n)
                 tok == IF raw # <<>> /\ raw[Len(raw)] = "\r"
                        THEN SubSeq(raw, 1, Len(raw) - 1) ELSE raw
             IN  IF n = -1 THEN <<tok>>
                 ELSE <<tok>> \o ScanLines(SliceFrom(text, n + 1)) :
             n \in {Index(text, "\n")}} : TRUE

-----------------------------------------------------------------------------
(* maps *)

EmptyMap == [k \in {} |-> 0]

Put(m, k, v) == [x \in DOMAIN m \cup {k} |-> IF x = k THEN v ELSE m[x]]

Has(m, k) == k \in DOMAIN m

-----------------------------------------------------------------------------
(* name and type grammar *)

\* a word grammar that accepts words of one letter: ^[A-Z][A-Z0-9]*$
word_regexpOneLetter(w) ==
    /\ Len(w) >= 1
    /\ IsUpperCh(w[1])
    /\ \A i \in 2..Len(w) : IsUpperCh(w[i]) \/ IsDigitCh(w[i])

\* word_regexp ^[A-Z][A-Z0-9]+$
word_regexp(w) ==
    /\ Len(w) >= 2
    /\ IsUpperCh(w[1])
    /\ \A i \in 2..Len(w) : IsUpperCh(w[i]) \/ IsDigitCh(w[i])

\* VersionRegexp ^[a-z0-9-.]+$
VersionRegexp(v) ==
    /\ Len(v) >= 1
    /\ \A i \in 1..Len(v) : IsLowerCh(v[i]) \/ IsDigitCh(v[i]) \/ v[i] \in {"-", "."}

\* ShortflagRegexp ^[a-z]$
ShortflagRegexp(s) == Len(s) = 1 /\ IsLowerCh(s[1])

\* ValidateShortflag: TRUE when the returned error is nil
ValidateShortflag(shortflag) == shortflag = <<>> \/ ShortflagRegexp(shortflag)

\* ValidateName: TRUE when the returned error is nil
ValidateName(name) ==
    /\ name # <<>>
    /\ \E words \in {Split(name, "_")} : \A i \in 1..Len(words) : word_regexp(words[i])

\* ValidateVersion: TRUE when the returned error is nil
ValidateVersion(version) == VersionRegexp(version)

Types == {"bool", "int32", "float32", "string", "datetime", "json"}

\* ValidateType: TRUE when the returned error is nil
ValidateType(typ) == typ \in Types

-----------------------------------------------------------------------------
(* values *)

\* A Go value of dynamic type t: "bool" (n is 0 or 1), "int32" (n), "float32"
\* (n is the value in tenths), "string" (s), "time" (s is the RFC3339 text of
\* the instant), "float64" (n in tenths, the type json.Unmarshal gives a
\* number), and "nil".
Val(t, n, s) == [t |-> t, n |-> n, s |-> s]

Nil == Val("nil", 0, <<>>)

\* an error value: its Go type or variable, the key or name it carries, and
\* the kind of the error it wraps ("" when it wraps none)
NoErr == [kind |-> "nil", key |-> <<>>, inner |-> ""]

Err(kind, key) == [kind |-> kind, key |-> key, inner |-> ""]

Wrap(kind, key, e) == [kind |-> kind, key |-> key, inner |-> e.kind]

AllDigits(s) == s # <<>> /\ \A i \in 1..Len(s) : IsDigitCh(s[i])

\* minus the number written by the first n digits of ds, and by ds
\* (accumulated below zero so that the least int32 does not overflow)
RECURSIVE NegValTo(_, _)
NegValTo(ds, n) ==
    IF n = 0 THEN 0
    ELSE NegValTo(ds, n - 1) * 10 - (PosIn(DigitSeq, ds[n]) - 1)

NegVal(ds) == NegValTo(ds, Len(ds))

RECURSIVE LexLE(_, _)
LexLE(a, b) ==
    IF a = <<>> THEN TRUE
    ELSE IF PosIn(DigitSeq, a[1]) # PosIn(DigitSeq, b[1])
         THEN PosIn(DigitSeq, a[1]) < PosIn(DigitSeq, b[1])
         ELSE LexLE(Tail(a), Tail(b))

MaxInt32Digits == <<"2","1","4","7","4","8","3","6","4","7">>
MinInt32Digits == <<"2","1","4","7","4","8","3","6","4","8">>

\* strconv.ParseInt(in, 10, 32)
ParseInt32(in) ==
    LET signed == in # <<>> /\ in[1] \in {"+", "-"}
        neg    == in # <<>> /\ in[1] = "-"
        body   == IF signed THEN Tail(in) ELSE in
        sig    == IF AllDigits(body) /\ TrimLeft(body, {"0"}) = <<>> THEN <<"0">>
                  ELSE TrimLeft(body, {"0"})
        fits   == \/ Len(sig) < 10
                  \/ Len(sig) = 10
                     /\ LexLE(sig, IF neg THEN MinInt32Digits ELSE MaxInt32Digits)
    IN  IF ~AllDigits(body) \/ ~fits THEN [err |-> TRUE, out |-> Nil]
        ELSE [err |-> FALSE,
              out |-> Val("int32", IF neg THEN NegVal(sig) ELSE 0 - NegVal(sig), <<>>)]

\* strconv.ParseBool
ParseBool(in) ==
    IF in \in {<<"1">>, <<"t">>, <<"T">>, <<"T","R","U","E">>,
               <<"t","r","u","e">>, <<"T","r","u","e">>}
    THEN [err |-> FALSE, out |-> Val("bool", 1, <<>>)]
    ELSE IF in \in {<<"0">>, <<"f">>, <<"F">>, <<"F","A","L","S","E">>,
                    <<"f","a","l","s","e">>, <<"F","a","l","s","e">>}
    THEN [err |-> FALSE, out |-> Val("bool", 0, <<>>)]
    ELSE [err |-> TRUE, out |-> Nil]

\* strconv.ParseFloat(in, 32) on the decimal texts [+-]digits[.digit] with at
\* most eight digits before the point; every other text the model uses holds a
\* letter and is a syntax error of ParseFloat as well
ParseFloat32(in) ==
    LET signed == in # <<>> /\ in[1] \in {"+", "-"}
        neg    == in # <<>> /\ in[1] = "-"
        body   == IF signed THEN Tail(in) ELSE in
        dot    == Index(body, ".")
        ip     == IF dot = -1 THEN body ELSE Slice(body, 0, dot)
        fp     == IF dot = -1 THEN <<"0">> ELSE SliceFrom(body, dot + 1)
        ok     == AllDigits(ip) /\ Len(ip) <= 8 /\ AllDigits(fp) /\ Len(fp) = 1
        tenths == 0 - NegVal(ip \o fp)
    IN  IF ~ok THEN [err |-> TRUE, out |-> Nil]
        ELSE [err |-> FALSE, out |-> Val("float32", IF neg THEN 0 - tenths ELSE tenths, <<>>)]

IsTwoDigits(s, lo, hi) ==
    AllDigits(s) /\ Len(s) = 2 /\ 0 - NegVal(s) >= lo /\ 0 - NegVal(s) <= hi

\* time.Parse(time.RFC3339, in) on texts of the shape 2006-01-02T15:04:05Z
\* (no fraction, offset Z); days are checked against 31 only
ParseRFC3339(in) ==
    LET ok == /\ Len(in) = 20
              /\ AllDigits(SubSeq(in, 1, 4))
              /\ in[5] = "-" /\ IsTwoDigits(SubSeq(in, 6, 7), 1, 12)
              /\ in[8] = "-" /\ IsTwoDigits(SubSeq(in, 9, 10), 1, 31)
              /\ in[11] = "T" /\ IsTwoDigits(SubSeq(in, 12, 13), 0, 23)
              /\ in[14] = ":" /\ IsTwoDigits(SubSeq(in, 15, 16), 0, 59)
              /\ in[17] = ":" /\ IsTwoDigits(SubSeq(in, 18, 19), 0, 59)
              /\ in[20] = "Z"
    IN  IF ok THEN [err |-> FALSE, out |-> Val("time", 0, in)]
        ELSE [err |-> TRUE, out |-> Nil]

\* json.Unmarshal(in, &v) returns nil: the JSON texts recognised are the
\* literals, integers, strings without escapes, the empty object, the empty
\* array and an array of one integer, each with optional surrounding space
IsJSONInt(s) ==
    LET body == IF s # <<>> /\ s[1] = "-" THEN Tail(s) ELSE s
    IN  AllDigits(body) /\ (Len(body) = 1 \/ body[1] # "0")

IsJSON(in) ==
    LET s == TrimSpace(in)
    IN  \/ s \in {<<"t","r","u","e">>, <<"f","a","l","s","e">>, <<"n","u","l","l">>,
                  <<"{","}">>, <<"[","]">>}
        \/ IsJSONInt(s)
        \/ /\ Len(s) >= 2 /\ s[1] = "\"" /\ s[Len(s)] = "\""
           /\ \A i \in 2..(Len(s) - 1) : s[i] \notin {"\"", "\\", "\n", "\t", "\r"}
        \/ /\ Len(s) >= 3 /\ s[1] = "[" /\ s[Len(s)] = "]"
           /\ IsJSONInt(SubSeq(s, 2, Len(s) - 1))

\* stringToValue
stringToValue(typ, in) ==
    CASE typ = "bool"     -> ParseBool(in)
      [] typ = "int32"    -> ParseInt32(in)
      [] typ = "float32"  -> ParseFloat32(in)
      [] typ = "datetime" -> ParseRFC3339(in)
      [] typ = "string"   -> [err |-> FALSE, out |-> Val("string", 0, in)]
      [] typ = "json"     -> IF IsJSON(in) THEN [err |-> FALSE, out |-> Val("string", 0, in)]
                             ELSE [err |-> TRUE, out |-> Nil]
      [] OTHER            -> [err |-> TRUE, out |-> Nil]

\* the decimal digits of n >= 0
RECURSIVE Digits(_)
Digits(n) ==
    IF n < 10 THEN <<DigitSeq[n + 1]>>
    ELSE Digits(n \div 10) \o <<DigitSeq[(n % 10) + 1]>>

\* fmt.Sprintf("%v", v) for bool, int32, float32, float64 and string
FormatV(v) ==
    CASE v.t = "bool"    -> IF v.n = 1 THEN <<"t","r","u","e">> ELSE <<"f","a","l","s","e">>
      [] v.t = "int32"   -> IF v.n = (0 - 2147483647) - 1 THEN <<"-">> \o MinInt32Digits
                            ELSE IF v.n < 0 THEN <<"-">> \o Digits(0 - v.n)
                            ELSE Digits(v.n)
      [] v.t \in {"float32", "float64"} ->
            LET a == IF v.n < 0 THEN 0 - v.n ELSE v.n
                sign == IF v.n < 0 THEN <<"-">> ELSE <<>>
            IN  sign \o Digits(a \div 10)
                     \o (IF a % 10 = 0 THEN <<>> ELSE <<".">> \o Digits(a % 10))
      [] v.t = "string"  -> v.s

-----------------------------------------------------------------------------
(* options *)

\* type Option
Option(name, required, type, help, default, shortflag) ==
    [Name |-> name, Required |-> required, Type |-> type, Help |-> help,
     Default |-> default, Shortflag |-> shortflag]

\* Option.ValidateValue: TRUE when the returned error is nil
ValidateValue(c, val) ==
    IF val = Nil /\ c.Required THEN FALSE
    ELSE IF val = Nil THEN TRUE
    ELSE CASE val.t = "bool"    -> c.Type = "bool"
           [] val.t = "int32"   -> c.Type = "int32"
           [] val.t = "float32" -> c.Type = "float32"
           [] val.t = "string"  -> /\ c.Type \in {"string", "json"}
                                   /\ (c.Type = "json" => IsJSON(val.s))
           [] val.t = "time"    -> c.Type = "datetime"
           [] OTHER             -> FALSE

\* Option.ValidateDefault: TRUE when the returned error is nil
ValidateDefault(c) == ValidateValue(c, c.Default)

\* Option.Validate: the error returned
Validate(c) ==
    IF ~ValidateName(c.Name) THEN Err("ErrInvalidName", c.Name)
    ELSE IF ~ValidateType(c.Type) THEN Err("ErrInvalidType", c.Name)
    ELSE IF ~ValidateDefault(c) THEN Err("ErrInvalidDefault", c.Name)
    ELSE IF c.Help = <<>> THEN Err("ErrMissingHelp", c.Name)
    ELSE NoErr

-----------------------------------------------------------------------------
(* config nodes *)

NoSub == <<>>

\* type Config; a child node lives in its parent's subcommands map, and
\* currentSub holds the name under which the selected child is registered
Node(app, version) ==
    [app |-> app, version |-> version, spec |-> EmptyMap, values |-> EmptyMap,
     locations |-> EmptyMap, shortflags |-> EmptyMap, subcommands |-> EmptyMap,
     currentSub |-> NoSub]

\* Config.Reset
Reset(c) == [c EXCEPT !.values = EmptyMap, !.locations = EmptyMap, !.currentSub = NoSub]

\* New
New(app, version) ==
    IF ~ValidateName(app) THEN [err |-> Err("ErrInvalidAppName", app), c |-> Node(<<>>, <<>>)]
    ELSE IF ~ValidateVersion(version)
         THEN [err |-> Err("ErrInvalidVersion", version), c |-> Node(<<>>, <<>>)]
    ELSE [err |-> NoErr, c |-> Reset(Node(app, version))]

\* Config.isSub, Config.appName, Config.subName
isSub(c) == ~(Index(c.app, "_") = -1)

appName(c) == IF isSub(c) THEN Slice(c.app, 0, Index(c.app, "_")) ELSE c.app

subName(c) == IF isSub(c) THEN SliceFrom(c.app, Index(c.app, "_") + 1) ELSE <<>>

\* Config.Sub: the error and the parent after the call; the child is
\* c.subcommands[name] of the result
Sub(c, name) ==
    IF isSub(c) THEN [err |-> Err("ErrSubSubCommand", name), c |-> c]
    ELSE CHOOSE out \in
            {IF s.err # NoErr THEN [err |-> s.err, c |-> c]
             ELSE [err |-> NoErr,
                   c |-> [c EXCEPT !.subcommands =
                            Put(c.subcommands, name,
                                [s.c EXCEPT !.app = c.app \o <<"_">> \o s.c.app])]] :
             s \in {New(name, c.version)}} : TRUE

\* Config.addOption
addOption(c, opt) ==
    IF ~ValidateName(opt.Name) THEN [err |-> Err("ErrInvalidOptionName", opt.Name), c |-> c]
    ELSE IF Has(c.spec, opt.Name) THEN [err |-> Err("ErrDoubleOption", opt.Name), c |-> c]
    ELSE LET c1 == [c EXCEPT !.spec = Put(c.spec, opt.Name, opt)]
         IN  IF opt.Shortflag # <<>>
             THEN IF Has(c1.shortflags, opt.Shortflag)
                  THEN [err |-> Err("ErrDoubleShortflag", opt.Shortflag), c |-> c1]
                  ELSE [err |-> NoErr,
                        c |-> [c1 EXCEPT !.shortflags = Put(c1.shortflags, opt.Shortflag, opt.Name)]]
             ELSE [err |-> NoErr, c |-> c1]

\* the setters Required, Default(val) and Shortflag(s) applied to an option;
\* mods.shortflag is the rune as a one-character string, <<>> without the setter
ApplySetters(o, mods) ==
    [o EXCEPT !.Required = mods.required,
              !.Default = mods.default,
              !.Shortflag = IF mods.shortflag = <<>> THEN <<>> ELSE ToUpper(mods.shortflag)]

\* Config.mkOption: panic holds the error mkOption panics with (NoErr when it
\* returns), added the error addOption returned, which mkOption drops
mkOption(c, name, type_, helpText, mods) ==
    CHOOSE out \in
        {IF Validate(o) # NoErr THEN [panic |-> Validate(o), added |-> NoErr, c |-> c]
         ELSE CHOOSE r \in {[panic |-> NoErr, added |-> a.err, c |-> a.c] :
                               a \in {addOption(c, o)}} : TRUE :
         o \in {ApplySetters(Option(ToUpper(name), FALSE, type_, helpText, Nil, <<>>), mods)}} :
        TRUE

\* Config.UnmarshalJSON: json.Unmarshal into the spec map stores every member
\* of the decoded object under its key and keeps the other entries
UnmarshalJSON(c, decoded) ==
    [c EXCEPT !.spec = [k \in DOMAIN c.spec \cup DOMAIN decoded |->
                          IF k \in DOMAIN decoded THEN decoded[k] ELSE c.spec[k]]]

\* Config.set that appends the location before it coerces the value
setRecordingFirst(c, key, val, location) ==
    IF ~ValidateName(key) THEN [err |-> Err("InvalidNameError", key), c |-> c]
    ELSE IF ~Has(c.spec, key) THEN [err |-> Err("UnknownOptionError", key), c |-> c]
    ELSE CHOOSE r \in
            {LET c1 == [c EXCEPT !.locations = Put(c.locations, key,
                                       (IF Has(c.locations, key) THEN c.locations[key]
                                        ELSE <<>>) \o <<location>>)]
             IN  IF v.err THEN [err |-> Err("InvalidValueError", key), c |-> c1]
                 ELSE [err |-> NoErr, c |-> [c1 EXCEPT !.values = Put(c.values, key, v.out)]] :
             v \in {stringToValue(c.spec[key].Type, val)}} : TRUE

\* Config.set that keeps only the location of the latest set
setReplacingLocations(c, key, val, location) ==
    IF ~ValidateName(key) THEN [err |-> Err("InvalidNameError", key), c |-> c]
    ELSE IF ~Has(c.spec, key) THEN [err |-> Err("UnknownOptionError", key), c |-> c]
    ELSE CHOOSE r \in
            {IF v.err THEN [err |-> Err("InvalidValueError", key), c |-> c]
             ELSE [err |-> NoErr,
                   c |-> [c EXCEPT !.values = Put(c.values, key, v.out),
                                   !.locations = Put(c.locations, key, <<location>>)]] :
             v \in {stringToValue(c.spec[key].Type, val)}} : TRUE

\* Config.set
set(c, key, val, location) ==
    IF ~ValidateName(key) THEN [err |-> Err("InvalidNameError", key), c |-> c]
    ELSE IF ~Has(c.spec, key) THEN [err |-> Err("UnknownOptionError", key), c |-> c]
    ELSE CHOOSE r \in
            {IF v.err THEN [err |-> Err("InvalidValueError", key), c |-> c]
             ELSE [err |-> NoErr,
                   c |-> [c EXCEPT !.values = Put(c.values, key, v.out),
                                   !.locations = Put(c.locations, key,
                                       (IF Has(c.locations, key) THEN c.locations[key]
                                        ELSE <<>>) \o <<location>>)]] :
             v \in {stringToValue(c.spec[key].Type, val)}} : TRUE

\* Config.Locations, Config.IsSet
Locations(c, option) == IF Has(c.locations, option) THEN c.locations[option] ELSE <<>>

IsSet(c, option) == Has(c.values, option)

\* the order in which a range statement visits a map with key set dom: Go
\* leaves it unspecified; rot picks the key visited first
RECURSIVE SeqOf(_)
SeqOf(S) ==
    IF S = {} THEN <<>>
    ELSE CHOOSE out \in {<<x>> \o SeqOf(S \ {x}) : x \in {CHOOSE y \in S : TRUE}} : TRUE

Iter(dom, rot) ==
    IF dom = {} THEN <<>>
    ELSE CHOOSE out \in {SubSeq(s, (rot % Len(s)) + 1, Len(s)) \o SubSeq(s, 1, rot % Len(s)) :
                            s \in {SeqOf(dom)}} : TRUE

\* CheckMissing with the test for a default turned around: it reports the
\* required options that have a default
CheckMissingOfDefaulted(c, rot) ==
    LET bad(k) == c.spec[k].Required /\ c.spec[k].Default # Nil /\ ~Has(c.values, k)
    IN  CHOOSE e \in
           {IF \E i \in 1..Len(order) : bad(order[i])
            THEN Err("MissingOptionError",
                     order[CHOOSE i \in 1..Len(order) :
                              bad(order[i]) /\ \A j \in 1..(i - 1) : ~bad(order[j])])
            ELSE NoErr :
            order \in {Iter(DOMAIN c.spec, rot)}} : TRUE

\* Config.CheckMissing
CheckMissing(c, rot) ==
    LET bad(k) == c.spec[k].Required /\ c.spec[k].Default = Nil /\ ~Has(c.values, k)
    IN  CHOOSE e \in
           {IF \E i \in 1..Len(order) : bad(order[i])
            THEN Err("MissingOptionError",
                     order[CHOOSE i \in 1..Len(order) :
                              bad(order[i]) /\ \A j \in 1..(i - 1) : ~bad(order[j])])
            ELSE NoErr :
            order \in {Iter(DOMAIN c.spec, rot)}} : TRUE

\* Config.ValidateValues
ValidateValues(c, rot) ==
    LET bad(k) == c.values[k] # Nil
                  /\ (~Has(c.spec, k) \/ ~ValidateValue(c.spec[k], c.values[k]))
    IN  CHOOSE e \in
           {IF \E i \in 1..Len(order) : bad(order[i])
            THEN LET k == order[CHOOSE i \in 1..Len(order) :
                                   bad(order[i]) /\ \A j \in 1..(i - 1) : ~bad(order[j])]
                 IN  IF ~Has(c.spec, k) THEN Err("UnknownOptionError", k)
                     ELSE Err("InvalidConfig", k)
            ELSE NoErr :
            order \in {Iter(DOMAIN c.values, rot)}} : TRUE

\* Config.LoadDefaults that stores the defaults and records no location
LoadDefaultsValuesOnly(c) ==
    LET withDefault == {k \in DOMAIN c.spec : c.spec[k].Default # Nil}
    IN  [c EXCEPT
           !.values = [k \in DOMAIN c.values \cup withDefault |->
                          IF k \in withDefault THEN c.spec[k].Default ELSE c.values[k]]]

\* Config.LoadDefaults
LoadDefaults(c) ==
    LET withDefault == {k \in DOMAIN c.spec : c.spec[k].Default # Nil}
    IN  [c EXCEPT
           !.values = [k \in DOMAIN c.values \cup withDefault |->
                          IF k \in withDefault THEN c.spec[k].Default ELSE c.values[k]],
           !.locations = [k \in DOMAIN c.locations \cup withDefault |->
                          IF k \in withDefault
                          THEN (IF Has(c.locations, k) THEN c.locations[k] ELSE <<>>)
                                   \o <<FormatV(c.spec[k].Default)>>
                          ELSE c.locations[k]]]

-----------------------------------------------------------------------------
(* the textual codec: parsing *)

\* Config.Merge, the closure setValue: the error it returns and the node after it
setValue(c, key, subcommand, valBuf, location, differentVersions) ==
    CHOOSE out \in
       {IF val = <<>>
        THEN [err |-> Err("EmptyValueError",
                          IF subcommand # <<>> THEN subcommand \o <<"_">> \o key ELSE key),
              c |-> c]
        ELSE IF subcommand = <<>>
        THEN [err |-> NoErr, c |-> set(c, key, val, location).c]
        ELSE IF ~Has(c.subcommands, subcommand)
        THEN [err |-> Err("unknown subcommand", subcommand), c |-> c]
        ELSE CHOOSE res2 \in
                {IF r.err # NoErr
                 THEN [err |-> IF differentVersions
                               THEN Wrap("InvalidConfigFileError", key,
                                         Err("not valid for running version", key))
                               ELSE Wrap("InvalidConfigFileError", key, r.err),
                       c |-> c]
                 ELSE [err |-> NoErr, c |-> [c EXCEPT !.subcommands[subcommand] = r.c]] :
                 r \in {set(c.subcommands[subcommand], key, val, location)}} : TRUE :
        val \in {TrimSpace(valBuf)}} : TRUE

\* the variables of Merge's scan loop; stop holds when the loop has returned
MergeState(c) ==
    [c |-> c, keys |-> {}, valBuf |-> <<>>, key |-> <<>>, subcommand |-> <<>>,
     err |-> NoErr, stop |-> FALSE]

Return(st, e) == [st EXCEPT !.err = e, !.stop = TRUE]

\* Config.Merge, the case "$" of the scan loop after the pending key was set
MergeKeyLine(st, pair, location) ==
    CHOOSE out \in
       {IF idx = -1
        THEN Return(st, Wrap("InvalidConfigFileError", location, Err("missing =", pair)))
        ELSE CHOOSE out2 \in
           {LET underscPos == Index(fullKey, "_")
                subcommand == IF underscPos > 0 THEN Slice(fullKey, 0, underscPos) ELSE <<>>
                key == IF underscPos > 0 THEN SliceFrom(fullKey, underscPos + 1) ELSE fullKey
            IN  IF fullKey \in st.keys
                THEN Return([st EXCEPT !.key = fullKey], Err("ErrDoubleOption", fullKey))
                ELSE IF ~ValidateName(key)
                THEN Return([st EXCEPT !.keys = @ \cup {fullKey}, !.key = key,
                                       !.subcommand = subcommand],
                            Err("ErrInvalidName", key))
                ELSE IF subcommand # <<>> /\ ~ValidateName(subcommand)
                THEN Return([st EXCEPT !.keys = @ \cup {fullKey}, !.key = key,
                                       !.subcommand = subcommand],
                            Err("ErrInvalidName", subcommand))
                ELSE [st EXCEPT !.keys = @ \cup {fullKey}, !.key = key,
                                !.subcommand = subcommand,
                                !.valBuf = IF idx < Len(pair) - 2
                                           THEN SliceFrom(pair, idx + 1) ELSE <<>>] :
            fullKey \in {TrimRight(Slice(pair, 1, idx), {" "})}} : TRUE :
        idx \in {Index(pair, "=")}} : TRUE

\* Config.Merge, one pass of the scan loop in which a comment line ends the
\* value of the pending key
MergeLineCommentEnds(st, pair, location, differentVersions) ==
    IF Len(pair) = 0 THEN st
    ELSE IF pair[1] = "#"
    THEN IF st.key # <<>>
         THEN CHOOSE out \in
                 {IF r.err # NoErr THEN Return([st EXCEPT !.c = r.c], r.err)
                  ELSE [st EXCEPT !.c = r.c, !.key = <<>>, !.valBuf = <<>>] :
                  r \in {setValue(st.c, st.key, st.subcommand, st.valBuf, location,
                                  differentVersions)}} : TRUE
         ELSE st
    ELSE IF pair[1] = "$"
    THEN IF st.key # <<>>
         THEN CHOOSE out \in
                 {IF r.err # NoErr THEN Return([st EXCEPT !.c = r.c], r.err)
                  ELSE MergeKeyLine([st EXCEPT !.c = r.c], pair, location) :
                  r \in {setValue(st.c, st.key, st.subcommand, st.valBuf, location,
                                  differentVersions)}} : TRUE
         ELSE MergeKeyLine(st, pair, location)
    ELSE [st EXCEPT !.valBuf = @ \o <<"\n">> \o pair]

\* Config.Merge, one pass of the scan loop
MergeLine(st, pair, location, differentVersions) ==
    IF Len(pair) = 0 THEN st
    ELSE IF pair[1] = "#" THEN st
    ELSE IF pair[1] = "$"
    THEN IF st.key # <<>>
         THEN CHOOSE out \in
                 {IF r.err # NoErr THEN Return([st EXCEPT !.c = r.c], r.err)
                  ELSE MergeKeyLine([st EXCEPT !.c = r.c], pair, location) :
                  r \in {setValue(st.c, st.key, st.subcommand, st.valBuf, location,
                                  differentVersions)}} : TRUE
         ELSE MergeKeyLine(st, pair, location)
    ELSE [st EXCEPT !.valBuf = @ \o <<"\n">> \o pair]

RECURSIVE MergeLines(_, _, _, _, _)
MergeLines(st, lines, i, location, differentVersions) ==
    IF st.stop \/ i > Len(lines) THEN st
    ELSE CHOOSE out \in
            {MergeLines(next, lines, i + 1, location, differentVersions) :
             next \in {MergeLine(st, lines[i], location, differentVersions)}} : TRUE

\* Config.Merge: the error returned and the node after the call
Merge(c, text, location) ==
    CHOOSE out \in
       {IF lines = <<>>
        THEN [err |-> Wrap("InvalidConfigFileError", location,
                           Err("can't read config header", <<>>)),
              c |-> c]
        ELSE CHOOSE out2 \in
           {IF Len(words) # 2
            THEN [err |-> Wrap("InvalidConfigFileError", location,
                               Err("invalid config header", <<>>)),
                  c |-> c]
            ELSE IF words[1] # appName(c)
            THEN [err |-> Wrap("InvalidConfigFileError", location,
                               Err("invalid config header: app", words[1])),
                  c |-> c]
            ELSE CHOOSE out3 \in
               {IF st.stop THEN [err |-> st.err, c |-> st.c]
                ELSE IF st.key # <<>>
                THEN [err |-> NoErr,
                      c |-> setValue(st.c, st.key, st.subcommand, st.valBuf, location,
                                     words[2] # c.version).c]
                ELSE [err |-> NoErr, c |-> st.c] :
                st \in {MergeLines(MergeState(c), lines, 2, location,
                                   words[2] # c.version)}} : TRUE :
            words \in {Split(lines[1], " ")}} : TRUE :
        lines \in {ScanLines(text)}} : TRUE

-----------------------------------------------------------------------------
(* environment and arguments *)

CONFIG_ == <<"_","C","O","N","F","I","G","_">>

\* Config.MergeEnv, one pass of the loop over ENV; st is [c, err, stop]
MergeEnvPair(st, pair) ==
    LET prefix   == ToUpper(st.c.app) \o CONFIG_
        startKey == Len(prefix)
    IN  IF ~HasPrefix(pair, prefix) \/ ~(startKey > 0) THEN st
        ELSE CHOOSE out \in
           {LET key == Slice(pair, startKey, startVal)
            IN  CHOOSE out2 \in
                   {IF val = <<>> THEN Return(st, Err("EmptyValueError", key))
                    ELSE CHOOSE out3 \in
                           {IF r.err # NoErr
                            THEN Return(st, Wrap("InvalidConfigEnv", Slice(pair, 0, startVal),
                                                 r.err))
                            ELSE [st EXCEPT !.c = r.c] :
                            r \in {set(st.c, ToLower(key), val, Slice(pair, 0, startVal))}} :
                           TRUE :
                    val \in {TrimSpace(SliceFrom(pair, startVal + 1))}} : TRUE :
            startVal \in {Index(pair, "=")}} : TRUE

RECURSIVE MergeEnvLoop(_, _, _)
MergeEnvLoop(st, env, i) ==
    IF st.stop \/ i > Len(env) THEN st
    ELSE CHOOSE out \in {MergeEnvLoop(next, env, i + 1) :
                            next \in {MergeEnvPair(st, env[i])}} : TRUE

\* Config.MergeEnv: the error returned and the node after the call
MergeEnv(c, env) ==
    CHOOSE out \in {[err |-> st.err, c |-> st.c] :
                       st \in {MergeEnvLoop([c |-> c, err |-> NoErr, stop |-> FALSE], env, 1)}} :
        TRUE

\* keyToArg
keyToArg(key) == <<"-", "-">> \o ToLower(ReplaceCh(key, "_", "-"))

\* argToKey
argToKey(arg) == ReplaceCh(ToUpper(TrimLeft(TrimLeft(arg, {"-"}), {"-"})), "-", "_")

\* the keys of mergeArgs' switch that print and call os.Exit(0)
ExitKeys ==
    {<<"c","o","n","f","i","g","-","s","p","e","c">>,
     <<"c","o","n","f","i","g","-","l","o","c","a","t","i","o","n","s">>,
     <<"c","o","n","f","i","g","-","f","i","l","e","s">>,
     <<"v","e","r","s","i","o","n">>,
     <<"h","e","l","p">>}

NoExit == <<>>

\* Config.mergeArgs, one pass of the loop, without the check of the keys
\* already set by this argument list
MergeArgsPairOverwriting(st, pair, ignoreUnknown) ==
    CHOOSE out \in
       {LET argKey == IF idx # -1 THEN Slice(pair, 0, idx) ELSE pair
            val    == IF idx # -1 THEN SliceFrom(pair, idx + 1) ELSE <<"t","r","u","e">>
        IN  IF idx # -1 /\ ~(idx < Len(pair) - 1)
            THEN Return(st, Wrap("InvalidConfigFlag", pair,
                                 Err("invalid argument syntax", pair)))
            ELSE IF idx # -1 /\ val = <<>> THEN Return(st, Err("EmptyValueError", argKey))
            ELSE CHOOSE out2 \in
               {LET key == IF Has(st.c.shortflags, key0) THEN st.c.shortflags[key0] ELSE key0
                IN  IF key0 \in ExitKeys THEN [st EXCEPT !.exit = key0, !.stop = TRUE]
                    ELSE IF ignoreUnknown /\ ~Has(st.c.spec, key) THEN st
                    ELSE CHOOSE out3 \in
                           {IF r.err # NoErr
                            THEN Return(st, Wrap("InvalidConfigFlag", pair, r.err))
                            ELSE [st EXCEPT !.c = r.c, !.merged = @ \cup {argKey},
                                            !.keys = @ \cup {key}] :
                            r \in {set(st.c, key, val, argKey)}} : TRUE :
                key0 \in {argToKey(argKey)}} : TRUE :
        idx \in {Index(pair, "=")}} : TRUE

\* Config.mergeArgs, one pass of the loop over args; st is
\* [c, merged, keys, err, exit, stop], exit the key on which the process exited
MergeArgsPair(st, pair, ignoreUnknown) ==
    CHOOSE out \in
       {LET argKey == IF idx # -1 THEN Slice(pair, 0, idx) ELSE pair
            val    == IF idx # -1 THEN SliceFrom(pair, idx + 1) ELSE <<"t","r","u","e">>
        IN  IF idx # -1 /\ ~(idx < Len(pair) - 1)
            THEN Return(st, Wrap("InvalidConfigFlag", pair,
                                 Err("invalid argument syntax", pair)))
            ELSE IF idx # -1 /\ val = <<>> THEN Return(st, Err("EmptyValueError", argKey))
            ELSE CHOOSE out2 \in
               {LET key == IF Has(st.c.shortflags, key0) THEN st.c.shortflags[key0] ELSE key0
                IN  IF key0 \in ExitKeys THEN [st EXCEPT !.exit = key0, !.stop = TRUE]
                    ELSE IF key \in st.keys THEN Return(st, Err("ErrDoubleOption", key))
                    ELSE IF ignoreUnknown /\ ~Has(st.c.spec, key) THEN st
                    ELSE CHOOSE out3 \in
                           {IF r.err # NoErr
                            THEN Return(st, Wrap("InvalidConfigFlag", pair, r.err))
                            ELSE [st EXCEPT !.c = r.c, !.merged = @ \cup {argKey},
                                            !.keys = @ \cup {key}] :
                            r \in {set(st.c, key, val, argKey)}} : TRUE :
                key0 \in {argToKey(argKey)}} : TRUE :
        idx \in {Index(pair, "=")}} : TRUE

RECURSIVE MergeArgsLoop(_, _, _, _)
MergeArgsLoop(st, args, i, ignoreUnknown) ==
    IF st.stop \/ i > Len(args) THEN st
    ELSE CHOOSE out \in {MergeArgsLoop(next, args, i + 1, ignoreUnknown) :
                            next \in {MergeArgsPair(st, args[i], ignoreUnknown)}} : TRUE

\* Config.mergeArgs: the set of merged argument keys, the error, the key on
\* which the process exited (NoExit when it did not) and the node after the call
mergeArgs(c, ignoreUnknown, args, rot) ==
    CHOOSE out \in
       {IF st.stop THEN [merged |-> st.merged, err |-> st.err, exit |-> st.exit, c |-> st.c]
        ELSE CHOOSE out2 \in
               {IF v # NoErr
                THEN [merged |-> st.merged, err |-> v, exit |-> NoExit, c |-> st.c]
                ELSE [merged |-> st.merged, err |-> CheckMissing(st.c, rot), exit |-> NoExit,
                      c |-> st.c] :
                v \in {ValidateValues(st.c, rot)}} : TRUE :
        st \in {MergeArgsLoop([c |-> c, merged |-> {}, keys |-> {}, err |-> NoErr,
                               exit |-> NoExit, stop |-> FALSE], args, 1, ignoreUnknown)}} :
       TRUE

\* Config.MergeArgs
MergeArgs(c, args, rot) == mergeArgs(c, FALSE, args, rot)

-----------------------------------------------------------------------------
(* files *)

\* a path of the file system: absent, or a file with its text
NoFile == [exists |-> FALSE, text |-> <<>>]

File(text) == [exists |-> TRUE, text |-> text]

Stages == {"global", "user", "local"}

\* Config.FirstGlobalsFile, Config.UserFile, Config.LocalFile: the path, which
\* is the location recorded for values of that file (one global directory)
PathOf(stage) ==
    CASE stage = "global" -> <<"/","g">>
      [] stage = "user"   -> <<"/","u">>
      [] stage = "local"  -> <<"/","l">>

\* Config.LoadFile
LoadFile(c, file, path) ==
    IF ~file.exists THEN [err |-> NoErr, found |-> FALSE, c |-> c]
    ELSE CHOOSE out \in
            {[err |-> IF m.err # NoErr THEN Wrap("can't merge file", path, m.err) ELSE NoErr,
              found |-> TRUE, c |-> m.c] :
             m \in {Merge(c, file.text, path)}} : TRUE

\* Config.LoadGlobals, Config.LoadUser, Config.LoadLocals
LoadStage(c, fs, stage) ==
    CHOOSE out \in {[err |-> IF r.found THEN r.err ELSE NoErr, c |-> r.c] :
                       r \in {LoadFile(c, fs[stage], PathOf(stage))}} : TRUE

-----------------------------------------------------------------------------
(* the merge pipeline *)

LoadResult(c, err, tr, args, exit) ==
    [c |-> c, err |-> err, trace |-> tr, args |-> args, exit |-> exit]

\* Config.Load, the branch taken when ARGS[0] names a subcommand
LoadSub(c, name, rest, env, rot, tr) ==
    LET argKey(arg) == IF Index(arg, "=") # -1 THEN Slice(arg, 0, Index(arg, "=")) ELSE arg
    IN  CHOOSE out \in
       {LET c1 == [c EXCEPT !.currentSub = name, !.subcommands[name] = se.c]
        IN  IF se.err # NoErr THEN LoadResult(c1, se.err, tr \o <<"subenv">>, rest, NoExit)
            ELSE CHOOSE out2 \in
               {LET c2 == [m1.c EXCEPT !.subcommands = c1.subcommands]
                IN  IF m1.err # NoErr \/ m1.exit # NoExit
                    THEN LoadResult(c2, m1.err, tr \o <<"subenv", "args">>, rest, m1.exit)
                    ELSE CHOOSE out3 \in
                       {LET c3 == [c2 EXCEPT !.subcommands[name] = m2.c]
                            unknown == {i \in 1..Len(rest) :
                                           /\ argKey(rest[i]) \notin m1.merged
                                           /\ argKey(rest[i]) \notin m2.merged}
                        IN  IF m2.err # NoErr \/ m2.exit # NoExit
                            THEN LoadResult(c3, m2.err, tr \o <<"subenv", "args", "subargs">>,
                                            rest, m2.exit)
                            ELSE IF unknown # {}
                            THEN LoadResult(c3,
                                     Err("UnknownOptionError",
                                         rest[CHOOSE i \in unknown : \A j \in unknown : i <= j]),
                                     tr \o <<"subenv", "args", "subargs">>, rest, NoExit)
                            ELSE LoadResult(c3, NoErr, tr \o <<"subenv", "args", "subargs">>,
                                            rest, NoExit) :
                        m2 \in {mergeArgs(c1.subcommands[name], TRUE, rest, rot)}} : TRUE :
                m1 \in {mergeArgs(c1, TRUE, rest, rot)}} : TRUE :
        se \in {MergeEnv(c.subcommands[name], env)}} : TRUE

\* Config.Load: the node after the call, the error returned, the stages that
\* ran, ARGS after the call and the key on which the process exited
Load(c, fs, env, args, rot) ==
    CHOOSE out \in
     {IF g.err # NoErr THEN LoadResult(g.c, g.err, <<"defaults", "global">>, args, NoExit)
      ELSE CHOOSE out2 \in
       {IF u.err # NoErr
        THEN LoadResult(u.c, u.err, <<"defaults", "global", "user">>, args, NoExit)
        ELSE CHOOSE out3 \in
         {IF l.err # NoErr
          THEN LoadResult(l.c, l.err, <<"defaults", "global", "user", "local">>, args, NoExit)
          ELSE CHOOSE out4 \in
           {IF e.err # NoErr
            THEN LoadResult(e.c, e.err, <<"defaults", "global", "user", "local", "env">>,
                            args, NoExit)
            ELSE IF Len(args) > 0 /\ Has(e.c.subcommands, ToLower(args[1]))
            THEN LoadSub(e.c, ToLower(args[1]), Tail(args), env, rot,
                         <<"defaults", "global", "user", "local", "env">>)
            ELSE CHOOSE out5 \in
                   {LoadResult(m.c, m.err,
                               <<"defaults", "global", "user", "local", "env", "args">>,
                               args, m.exit) :
                    m \in {MergeArgs(e.c, args, rot)}} : TRUE :
            e \in {MergeEnv(l.c, env)}} : TRUE :
          l \in {LoadStage(u.c, fs, "local")}} : TRUE :
        u \in {LoadStage(g.c, fs, "user")}} : TRUE :
      g \in {LoadStage(LoadDefaults(Reset(c)), fs, "global")}} : TRUE

-----------------------------------------------------------------------------
(* the textual codec: writing *)

\* the name of a type as text
TypeText(typ) ==
    CASE typ = "bool"     -> <<"b","o","o","l">>
      [] typ = "int32"    -> <<"i","n","t","3","2">>
      [] typ = "float32"  -> <<"f","l","o","a","t","3","2">>
      [] typ = "string"   -> <<"s","t","r","i","n","g">>
      [] typ = "datetime" -> <<"d","a","t","e","t","i","m","e">>
      [] typ = "json"     -> <<"j","s","o","n">>
      [] OTHER            -> <<"?">>

\* ty.Format(DateTimeFormat) of a time.Time
FormatDateTime(v) == v.s

\* an open file being written: the text written so far, the number of calls
\* of WriteString made, and whether a call has failed
Writer == [text |-> <<>>, n |-> 0, failed |-> FALSE]

\* file.WriteString(s), the call numbered failAt failing (0: no call fails)
WriteString(w, s, failAt) ==
    IF w.n + 1 = failAt THEN [w EXCEPT !.n = @ + 1, !.failed = TRUE]
    ELSE [w EXCEPT !.n = @ + 1, !.failed = FALSE, !.text = @ \o s]

\* Config.writeConfigValues, the text written for a value by the type switch
ValueText(v) ==
    CASE v.t \in {"bool", "int32", "float32"} -> FormatV(v)
      [] v.t = "string" ->
            (IF Len(v.s) > 15 \/ ContainsCh(v.s, "\n") THEN <<"\n">> ELSE <<>>) \o v.s
      [] v.t = "time"   -> <<" ">> \o FormatDateTime(v)
      [] OTHER          -> <<"\n">> \o FormatV(v)

\* Config.writeConfigValues, one pass of the loop over c.values; st is
\* [w, err, stop]
WriteValue(c, st, k, failAt) ==
    LET v == c.values[k]
        help == Split(c.spec[k].Help, "\n")
        helplines == [i \in 1..Len(help) |-> TrimSpace(help[i])]
        writeKey == IF isSub(c) THEN subName(c) \o <<"_">> \o k ELSE k
    IN  IF v = Nil THEN st
        ELSE CHOOSE out \in
           {IF w1.failed THEN [st EXCEPT !.w = w1, !.err = Err("write", k), !.stop = TRUE]
            ELSE CHOOSE out2 \in
               {IF w2.failed
                THEN [st EXCEPT !.w = w2, !.err = Err("write", k), !.stop = TRUE]
                ELSE IF v.t = "time" /\ c.spec[k].Type # "datetime"
                THEN [st EXCEPT !.w = w2, !.err = Err("InvalidTypeError", k), !.stop = TRUE]
                ELSE CHOOSE out3 \in
                       {IF w3.failed
                        THEN [st EXCEPT !.w = w3, !.err = Err("write", k), !.stop = TRUE]
                        ELSE [st EXCEPT !.w = w3] :
                        w3 \in {WriteString(w2, ValueText(v), failAt)}} : TRUE :
                w2 \in {WriteString(w1, <<"$">> \o writeKey \o <<"=">>, failAt)}} : TRUE :
            w1 \in {WriteString(st.w,
                      <<"\n","#"," ","-","-","-"," ">> \o writeKey \o <<" ","(">>
                      \o TypeText(c.spec[k].Type)
                      \o <<")"," ","-","-","-","\n","#"," "," "," "," "," ">>
                      \o Join(helplines, <<"\n","#"," "," "," "," "," ">>) \o <<"\n">>,
                      failAt)}} : TRUE

RECURSIVE WriteValues(_, _, _, _, _)
WriteValues(c, st, order, i, failAt) ==
    IF st.stop \/ i > Len(order) THEN st
    ELSE CHOOSE out \in {WriteValues(c, next, order, i + 1, failAt) :
                            next \in {WriteValue(c, st, order[i], failAt)}} : TRUE

\* Config.writeConfigValues, one pass of the loop over c.subcommands: the
\* banner is written, then the child writes its values and the error of that
\* call is dropped
WriteSub(c, st, name, rot, failAt) ==
    CHOOSE out \in
       {IF w1.failed THEN [st EXCEPT !.w = w1, !.err = Err("write", name), !.stop = TRUE]
        ELSE [st EXCEPT !.w = WriteValues(c.subcommands[name],
                                          [w |-> w1, err |-> NoErr, stop |-> FALSE],
                                          Iter(DOMAIN c.subcommands[name].values, rot), 1,
                                          failAt).w] :
        w1 \in {WriteString(st.w,
                  <<"\n","#"," ","-","-","-","-","-","-","-","-","-","-","-","-"," ",
                    "S","U","B","C","O","M","M","A","N","D"," ">>
                  \o subName(c.subcommands[name])
                  \o <<" ","-","-","-","-","-","-","-","-","-","-","-","-","\n","#">>,
                  failAt)}} : TRUE

RECURSIVE WriteSubs(_, _, _, _, _, _)
WriteSubs(c, st, order, i, rot, failAt) ==
    IF st.stop \/ i > Len(order) THEN st
    ELSE CHOOSE out \in {WriteSubs(c, next, order, i + 1, rot, failAt) :
                            next \in {WriteSub(c, st, order[i], rot, failAt)}} : TRUE

\* Config.writeConfigValues: the writer after the call and the error returned
writeConfigValues(c, w, rot, failAt) ==
    CHOOSE out \in
       {IF vs.stop THEN [w |-> vs.w, err |-> vs.err]
        ELSE CHOOSE out2 \in
               {[w |-> ss.w, err |-> ss.err] :
                ss \in {WriteSubs(c, vs, Iter(DOMAIN c.subcommands, rot), 1, rot, failAt)}} :
               TRUE :
        vs \in {WriteValues(c, [w |-> w, err |-> NoErr, stop |-> FALSE],
                            Iter(DOMAIN c.values, rot), 1, failAt)}} : TRUE

\* the text WriteConfigFile writes first: the header line and the comment
\* lines that describe the format; of those, which all start with the comment
\* mark, the first, one of the example and the last are kept
Preamble(c) ==
    c.app \o <<" ">> \o c.version
    \o <<"\n","#"," ","D","o","n","'","t"," ","d","e","l","e","t","e">>
    \o <<"\n","#"," "," ","$","c","o","m","m","i","t","_","a","l","l","=","t","r","u","e">>
    \o <<"\n","#">>

\* Config.WriteConfigFile for a path whose directory exists: the error
\* returned and the file at the path after the call
WriteConfigFile(c, file, rot, failAt) ==
    LET backup == IF file.exists THEN file.text ELSE <<>>
        restored == IF Len(backup) # 0 THEN File(backup) ELSE NoFile
    IN  IF isSub(c) THEN [err |-> Err("WriteConfigFile must not be called in sub command", <<>>),
                          file |-> file]
        ELSE CHOOSE out \in
           {IF v # NoErr THEN [err |-> v, file |-> file]
            ELSE IF Cardinality(DOMAIN c.values) = 0 THEN [err |-> NoErr, file |-> NoFile]
            ELSE CHOOSE out2 \in
               {IF h.failed THEN [err |-> Err("write", <<>>), file |-> restored]
                ELSE CHOOSE out3 \in
                       {IF r.err # NoErr THEN [err |-> r.err, file |-> restored]
                        ELSE [err |-> NoErr, file |-> File(r.w.text)] :
                        r \in {writeConfigValues(c, h, rot, failAt)}} : TRUE :
                h \in {WriteString(Writer, Preamble(c), failAt)}} : TRUE :
            v \in {ValidateValues(c, rot)}} : TRUE

-----------------------------------------------------------------------------
(* inputs *)

MaxRegs == 2

MaxSets == 2
MaxOps == 2
MapOrders == 2

DEMO == <<"D","E","M","O">>
demo == <<"d","e","m","o">>
V100 == <<"1",".","0",".","0">>
SUB == <<"S","U","B">>
PORT == <<"P","O","R","T">>
NAME == <<"N","A","M","E">>
DEBUG == <<"D","E","B","U","G">>
FOO == <<"F","O","O">>
HelpText == <<"h">>

MY_APP == <<"M","Y","_","A","P","P">>

AppNames == {DEMO, demo, MY_APP}

SubNames == {SUB}

NoMods == [required |-> FALSE, default |-> Nil, shortflag |-> <<>>]

Decl(name, type, mods) == [name |-> name, type |-> type, help |-> HelpText, mods |-> mods]

\* the option declarations a program makes with NewInt32, NewString, NewBool:
\* the first six on the root node, the last on a subcommand node
Decls ==
    << Decl(<<"p","o","r","t">>, "int32", [NoMods EXCEPT !.default = Val("int32", 80, <<>>), !.shortflag = <<"p">>]),
       Decl(PORT, "int32", [NoMods EXCEPT !.required = TRUE, !.shortflag = <<"p">>]),
       Decl(PORT, "int32", [NoMods EXCEPT !.required = TRUE, !.default = Val("int32", 80, <<>>)]),
       Decl(NAME, "string", [NoMods EXCEPT !.shortflag = <<"p">>]),
       Decl(DEBUG, "bool", NoMods),
       Decl(PORT, "string", NoMods),
       Decl(FOO, "int32", NoMods) >>

\* the decoded spec documents given to UnmarshalJSON
SpecDocs ==
    { [k \in {PORT} |-> Option(PORT, TRUE, "int32", HelpText, Nil, <<>>)],
      [k \in {PORT} |-> Option(PORT, FALSE, "int32", HelpText, Val("float64", 800, <<>>), <<>>)] }

EnvChoices ==
    { <<>>,
      << <<"H","O","M","E","=","/","r">>, <<"D","E","M","O","_","C","O","N","F","I","G","_","P","O","R","T","=","8","0","8","0">> >> }

ArgChoices ==
    { <<>>,
      << <<"-","p","=","8","0","8","0">> >>,
      << <<"-","-","p","o","r","t","=","1">>, <<"-","-","d","e","b","u","g">> >>,
      << SUB, <<"-","-","f","o","o","=","1">> >>,
      << <<"s","u","b">>, <<"-","-","f","o","o","=","1">> >>,
      << <<"-","-","z","z","z","=","1">> >>,
      << <<"-","-","h","e","l","p">> >>,
      << <<"-","-","v","e","r","s","i","o","n">> >>,
      << <<"-","-","p","o","r","t","=","1">>, <<"-","-","p","o","r","t","=","2">> >>,
      << <<"-","p","=","1">>, <<"-","p","=","2">> >>,
      << <<"-","p","=","1">>, <<"-","-","n","a","m","e","=","2">> >>,
      << <<"-","-","n","a","m","e","=","1">>, <<"-","p","=","2">> >> }

FGlobal == <<"D","E","M","O"," ","1",".","0",".","0","\n","$","P","O","R","T","=","8","0","8","5","\n">>
FGood == <<"D","E","M","O"," ","1",".","0",".","0","\n","#"," ","c","\n","$","P","O","R","T","=","8","0","8","1","\n","$","N","A","M","E","=","b","o","b","\n">>
FLocal == <<"D","E","M","O"," ","1",".","0",".","0","\n","$","P","O","R","T","=","8","0","8","4","\n">>
FUnknownKey == <<"D","E","M","O"," ","1",".","0",".","0","\n","$","Z","Z","Z","=","1","1","\n","$","P","O","R","T","=","8","0","8","2","\n">>
FBadValueLast == <<"D","E","M","O"," ","1",".","0",".","0","\n","$","P","O","R","T","=","a","b","c">>
FBadHeader == <<"O","T","H","E","R"," ","1",".","0",".","0","\n","$","P","O","R","T","=","8","0","8","1","\n">>
FSubUnknown == <<"D","E","M","O"," ","1",".","0",".","0","\n","$","S","U","B","_","Z","Z","Z","=","1","1","\n","$","P","O","R","T","=","8","0","8","3","\n">>

NoDisk == [s \in Stages |-> NoFile]

Disk(g, u, l) == [s \in Stages |-> CASE s = "global" -> g [] s = "user" -> u [] s = "local" -> l]

DiskChoices ==
    { NoDisk,
      Disk(File(FGlobal), File(FGood), File(FLocal)),
      Disk(NoFile, File(FUnknownKey), File(FLocal)),
      Disk(NoFile, File(FBadValueLast), File(FLocal)),
      Disk(NoFile, File(FBadHeader), File(FLocal)),
      Disk(NoFile, File(FSubUnknown), File(FLocal)) }

\* what the process starts with: environment, arguments and files
Scenarios ==
    {[env |-> <<>>, args |-> a, disk |-> NoDisk] : a \in ArgChoices}
    \cup {[env |-> e, args |-> a, disk |-> NoDisk] :
             e \in EnvChoices, a \in {<<>>, << <<"-","p","=","8","0","8","0">> >>}}
    \cup {[env |-> <<>>, args |-> <<>>, disk |-> d] : d \in DiskChoices}
    \cup {[env |-> e, args |-> << <<"-","p","=","8","0","8","0">> >>,
           disk |-> Disk(File(FGlobal), File(FGood), File(FLocal))] : e \in EnvChoices}

SetLocation == <<"h","e","r","e">>

-----------------------------------------------------------------------------
(* the state machine *)

\* the last call: the operation, the node it was called on, the declaration
\* or key or name it was given, the error returned, the error it panicked
\* with, the key on which it exited the process, and ARGS when it was called
Result(op, ref, decl, key, err, panic, exit) ==
    [op |-> op, ref |-> ref, decl |-> decl, key |-> key, err |-> err, panic |-> panic,
     exit |-> exit, args |-> ARGS]

\* the values a node and its children hold
ValueSet(c) ==
    [root |-> c.values, subs |-> [n \in DOMAIN c.subcommands |-> c.subcommands[n].values]]

\* the last write of the values to a file and parse of that file: the error of
\* the write, whether a file was written, the error of the parse, and the
\* values before the write and after the parse
NoRt ==
    [done |-> FALSE, werr |-> NoErr, written |-> FALSE, err |-> NoErr,
     orig |-> ValueSet(Node(<<>>, <<>>)), parsed |-> ValueSet(Node(<<>>, <<>>))]

Root == <<>>

\* the nodes the program holds: the root and the children registered in it
Refs == {Root} \cup DOMAIN root.subcommands

GetNode(ref) == IF ref = Root THEN root ELSE root.subcommands[ref]

WithNode(ref, c) == IF ref = Root THEN c ELSE [root EXCEPT !.subcommands[ref] = c]

Init ==
    /\ root = Node(<<>>, <<>>)
    /\ made = FALSE
    /\ \E s \in Scenarios : ENV = s.env /\ ARGS = s.args /\ disk = s.disk
    /\ res = Result("init", Root, 0, <<>>, NoErr, NoErr, NoExit)
    /\ trace = <<>>
    /\ rt = NoRt
    /\ regs = 0
    /\ ops = 0

\* New(app, version)
NewOp(app) ==
    /\ ~made
    /\ \E r \in {New(app, V100)} :
          /\ root' = r.c
          /\ made' = (r.err = NoErr)
          /\ res' = Result("New", Root, 0, app, r.err, NoErr, NoExit)
    /\ UNCHANGED <<ENV, ARGS, disk, trace, rt, regs, ops>>

\* c.Sub(name)
SubOp(ref, name) ==
    /\ made /\ ops = 0 /\ regs < MaxRegs
    /\ \E r \in {Sub(GetNode(ref), name)} :
          /\ root' = WithNode(ref, r.c)
          /\ res' = Result("Sub", ref, 0, name, r.err, NoErr, NoExit)
    /\ regs' = regs + 1
    /\ UNCHANGED <<made, ENV, ARGS, disk, trace, rt, ops>>

\* c.NewInt32(...), c.NewString(...), c.NewBool(...): mkOption with declaration d
MkOptionOp(ref, d) ==
    /\ made /\ ops = 0 /\ regs < MaxRegs
    /\ \E r \in {mkOption(GetNode(ref), Decls[d].name, Decls[d].type, Decls[d].help,
                          Decls[d].mods)} :
          /\ root' = WithNode(ref, r.c)
          /\ res' = Result("mkOption", ref, d, ToUpper(Decls[d].name), r.added, r.panic, NoExit)
    /\ regs' = regs + 1
    /\ UNCHANGED <<made, ENV, ARGS, disk, trace, rt, ops>>

\* c.UnmarshalJSON(data)
UnmarshalJSONOp(doc) ==
    /\ made /\ ops = 0 /\ regs < MaxRegs
    /\ root' = UnmarshalJSON(root, doc)
    /\ res' = Result("UnmarshalJSON", Root, 0, <<>>, NoErr, NoErr, NoExit)
    /\ regs' = regs + 1
    /\ UNCHANGED <<made, ENV, ARGS, disk, trace, rt, ops>>

\* c.Load(helpIntro)
LoadOp(rot) ==
    /\ made /\ ops < MaxOps
    /\ \E r \in {Load(root, disk, ENV, ARGS, rot)} :
          /\ root' = r.c
          /\ ARGS' = r.args
          /\ trace' = r.trace
          /\ res' = Result("Load", Root, 0, <<>>, r.err, NoErr, r.exit)
    /\ ops' = ops + 1
    /\ UNCHANGED <<made, ENV, disk, rt, regs>>

\* c.MergeEnv()
MergeEnvOp(ref) ==
    /\ made /\ ops < MaxOps
    /\ \E r \in {MergeEnv(GetNode(ref), ENV)} :
          /\ root' = WithNode(ref, r.c)
          /\ res' = Result("MergeEnv", ref, 0, <<>>, r.err, NoErr, NoExit)
    /\ ops' = ops + 1
    /\ UNCHANGED <<made, ENV, ARGS, disk, trace, rt, regs>>

\* c.Set(option, val, location)
SetOp(ref, key, val) ==
    /\ made /\ ~rt.done /\ ops < MaxSets
    /\ \E r \in {set(GetNode(ref), key, val, SetLocation)} :
          /\ root' = WithNode(ref, r.c)
          /\ res' = Result("Set", ref, 0, key, r.err, NoErr, NoExit)
    /\ ops' = ops + 1
    /\ UNCHANGED <<made, ENV, ARGS, disk, trace, rt, regs>>

\* c.Reset()
ResetOp(ref) ==
    /\ made /\ ~rt.done /\ ops < MaxSets
    /\ root' = WithNode(ref, Reset(GetNode(ref)))
    /\ res' = Result("Reset", ref, 0, <<>>, NoErr, NoErr, NoExit)
    /\ ops' = ops + 1
    /\ UNCHANGED <<made, ENV, ARGS, disk, trace, rt, regs>>

DeclsFor(ref) == IF ref = Root THEN 1..(Len(Decls) - 1) ELSE {Len(Decls)}

\* registration, then runs of the merge pipeline
Next ==
    \/ \E app \in AppNames : NewOp(app)
    \/ \E ref \in Refs, name \in SubNames : SubOp(ref, name)
    \/ \E ref \in Refs : \E d \in DeclsFor(ref) : MkOptionOp(ref, d)
    \/ \E doc \in SpecDocs : UnmarshalJSONOp(doc)
    \/ \E rot \in 0..(MapOrders - 1) : LoadOp(rot)
    \/ \E ref \in Refs : MergeEnvOp(ref)

Spec == Init /\ [][Next]_vars

-----------------------------------------------------------------------------
(* writing the values of a node and parsing them back *)

RATE == <<"R","A","T","E">>
START == <<"S","T","A","R","T">>
EXTRA == <<"E","X","T","R","A">>
MAX_SIZE == <<"M","A","X","_","S","I","Z","E">>

\* the options of the root node, one of each type and one with a name of two
\* words
CodecDecls ==
    << Decl(PORT, "int32", NoMods), Decl(NAME, "string", NoMods), Decl(DEBUG, "bool", NoMods),
       Decl(RATE, "float32", NoMods), Decl(START, "datetime", NoMods),
       Decl(EXTRA, "json", NoMods), Decl(MAX_SIZE, "int32", NoMods) >>

RECURSIVE Register(_, _, _)
Register(c, decls, i) ==
    IF i > Len(decls) THEN c
    ELSE CHOOSE out \in
            {Register(next, decls, i + 1) :
             next \in {mkOption(c, decls[i].name, decls[i].type, decls[i].help,
                                decls[i].mods).c}} : TRUE

\* the node a program has after New, the declarations of CodecDecls, Sub and
\* the declaration of FOO on the child
Schema ==
    CHOOSE out \in
       {[s EXCEPT !.subcommands[SUB] =
            Register(s.subcommands[SUB], <<Decl(FOO, "int32", NoMods)>>, 1)] :
        s \in {Sub(Register(New(DEMO, V100).c, CodecDecls, 1), SUB).c}} : TRUE

\* the calls of Set a program makes: the node, the key and the text of the
\* value
CodecSets ==
    { <<Root, PORT, <<"7">>>>, <<Root, PORT, <<"8","0","8","0">>>>, <<Root, PORT, <<"a","b","c">>>>,
      <<Root, NAME, <<"b","o","b">>>>, <<Root, NAME, <<"a"," ","n","a","m","e"," ","o","f"," ","1","7"," ","c","h","r">>>>,
      <<Root, DEBUG, <<"t","r","u","e">>>>, <<Root, RATE, <<"1","2",".","5">>>>,
      <<Root, START, <<"2","0","2","0","-","0","1","-","0","2","T","0","3",":","0","4",":","0","5","Z">>>>,
      <<Root, EXTRA, <<"[","1","2","]">>>>, <<Root, MAX_SIZE, <<"4","2">>>>,
      <<SUB, FOO, <<"1","2">>>>,
      <<Root, DEBUG, <<"n","o","t","a","b","o","o","l">>>>,
      <<Root, <<"p","o","r","t">>, <<"7">>>>, <<Root, FOO, <<"1","2">>>>, <<SUB, PORT, <<"7">>>> }

InitCodec ==
    /\ root = Schema
    /\ made = TRUE
    /\ ENV = <<>> /\ ARGS = <<>> /\ disk = NoDisk
    /\ res = Result("init", Root, 0, <<>>, NoErr, NoErr, NoExit)
    /\ trace = <<>>
    /\ rt = NoRt
    /\ regs = 0
    /\ ops = 0

\* c.WriteConfigFile(path) and then Merge of the written file into a node made
\* with the same app, version and options
RoundTripOp(rot) ==
    /\ made /\ ~rt.done
    /\ \E w \in {WriteConfigFile(root, disk["user"], rot, 0)} :
       \E m \in {IF w.file.exists THEN Merge(Schema, w.file.text, PathOf("user"))
                 ELSE [err |-> NoErr, c |-> Schema]} :
          /\ disk' = [disk EXCEPT !["user"] = w.file]
          /\ rt' = [done |-> TRUE, werr |-> w.err, written |-> w.file.exists,
                    err |-> m.err, orig |-> ValueSet(root), parsed |-> ValueSet(m.c)]
          /\ res' = Result("WriteConfigFile", Root, 0, <<>>, w.err, NoErr, NoExit)
    /\ UNCHANGED <<root, made, ENV, ARGS, trace, regs, ops>>

NextCodec ==
    \/ \E s \in CodecSets : SetOp(s[1], s[2], s[3])
    \/ \E ref \in Refs : ResetOp(ref)
    \/ \E rot \in 0..(MapOrders - 1) : RoundTripOp(rot)

SpecCodec == InitCodec /\ [][NextCodec]_vars


-----------------------------------------------------------------------------
(* the life of a configured program: loads, sets and resets *)

FSub == <<"D","E","M","O"," ","1",".","0",".","0","\n","$","S","U","B","_","F","O","O","=","1","2","\n","$","P","O","R","T","=","8","0","8","3","\n">>

\* files in which a key appears twice, and files in which a key has no value
FTwice == <<"D","E","M","O"," ","1",".","0",".","0","\n","$","P","O","R","T","=","8","0","8","1","\n","$","P","O","R","T","=","8","0","8","2","\n">>
FTwiceShort == <<"D","E","M","O"," ","1",".","0",".","0","\n","$","P","O","R","T","=","5","\n","$","P","O","R","T","=","6","\n">>
FEmptyMid == <<"D","E","M","O"," ","1",".","0",".","0","\n","$","N","A","M","E","=","\n","$","P","O","R","T","=","8","0","8","1","\n">>
FEmptyLast == <<"D","E","M","O"," ","1",".","0",".","0","\n","$","P","O","R","T","=","8","0","8","1","\n","$","N","A","M","E","=","\n">>

\* a file with a value of one character, a file with a comment inside a
\* value of several lines, and a file for an option with a name of two words
FShort == <<"D","E","M","O"," ","1",".","0",".","0","\n","$","P","O","R","T","=","5","\n","$","N","A","M","E","=","b","o","b","\n">>
FComment == <<"D","E","M","O"," ","1",".","0",".","0","\n","$","N","A","M","E","=","b","o","b","\n","#"," ","n","o","t","e","\n","m","o","r","e","\n","$","P","O","R","T","=","8","0","8","1","\n">>
FMaxSize == <<"D","E","M","O"," ","1",".","0",".","0","\n","$","M","A","X","_","S","I","Z","E","=","4","2","\n">>

\* the node a program has after New, the declarations of PORT with default 80
\* and shortflag p, of NAME and of MAX_SIZE, Sub and the declaration of FOO on
\* the child
LifeSchema ==
    CHOOSE out \in
       {[s EXCEPT !.subcommands[SUB] =
            Register(s.subcommands[SUB], <<Decl(FOO, "int32", NoMods)>>, 1)] :
        s \in {Sub(Register(New(DEMO, V100).c,
                            << Decl(PORT, "int32", [NoMods EXCEPT !.default = Val("int32", 80, <<>>),
                                                                  !.shortflag = <<"p">>]),
                               Decl(NAME, "string", NoMods),
                               Decl(MAX_SIZE, "int32", NoMods) >>, 1), SUB).c}} : TRUE

\* what the configured program starts with: arguments and files
LifeScenarios ==
    {[args |-> a, disk |-> d] :
        a \in {<<>>, << <<"-","p","=","8","0","8","0">> >>},
        d \in {NoDisk, Disk(File(FGlobal), File(FGood), File(FLocal)),
               Disk(NoFile, File(FSub), NoFile)}}
    \cup {[args |-> <<>>, disk |-> Disk(NoFile, File(f), NoFile)] :
             f \in {FTwice, FTwiceShort, FEmptyMid, FEmptyLast, FShort, FComment, FMaxSize}}

\* the calls of Set the configured program makes
LifeSets ==
    { <<Root, PORT, <<"7">>>>, <<Root, NAME, <<"b","o","b">>>>, <<SUB, FOO, <<"4","2">>>>,
      <<Root, PORT, <<"a","b","c">>>> }

InitLife ==
    /\ root = LifeSchema
    /\ made = TRUE
    /\ ENV = <<>>
    /\ \E s \in LifeScenarios : ARGS = s.args /\ disk = s.disk
    /\ res = Result("init", Root, 0, <<>>, NoErr, NoErr, NoExit)
    /\ trace = <<>>
    /\ rt = NoRt
    /\ regs = 0
    /\ ops = 0

\* c.LoadDefaults()
LoadDefaultsOp(ref) ==
    /\ made /\ ~rt.done /\ ops < MaxSets
    /\ root' = WithNode(ref, LoadDefaults(GetNode(ref)))
    /\ res' = Result("LoadDefaults", ref, 0, <<>>, NoErr, NoErr, NoExit)
    /\ ops' = ops + 1
    /\ UNCHANGED <<made, ENV, ARGS, disk, trace, rt, regs>>

NextLife ==
    \/ \E rot \in 0..(MapOrders - 1) : LoadOp(rot)
    \/ \E s \in LifeSets : SetOp(s[1], s[2], s[3])
    \/ \E ref \in Refs : ResetOp(ref)
    \/ \E ref \in Refs : LoadDefaultsOp(ref)

SpecLife == InitLife /\ [][NextLife]_vars

-----------------------------------------------------------------------------
(* saving the values of a configured program *)

\* the write calls of one WriteConfigFile that can be made to fail
MaxFailAt == 8

\* the configured program and the user file it finds: none, an empty one, or
\* one with values
InitWrite ==
    /\ root = LifeSchema
    /\ made = TRUE
    /\ ENV = <<>> /\ ARGS = <<>>
    /\ \E f \in {NoFile, File(<<>>), File(FGood), File(FLocal)} : disk = Disk(NoFile, f, NoFile)
    /\ res = Result("init", Root, 0, <<>>, NoErr, NoErr, NoExit)
    /\ trace = <<>>
    /\ rt = NoRt
    /\ regs = 0
    /\ ops = 0

\* c.WriteConfigFile(path, perm) on the user file, the write call numbered
\* failAt failing (0: none fails)
WriteConfigFileOp(rot, failAt) ==
    /\ made /\ ~rt.done
    /\ \E w \in {WriteConfigFile(root, disk["user"], rot, failAt)} :
          /\ disk' = [disk EXCEPT !["user"] = w.file]
          /\ rt' = [NoRt EXCEPT !.done = TRUE, !.werr = w.err, !.written = w.file.exists]
          /\ res' = Result("WriteConfigFile", Root, 0, <<>>, w.err, NoErr, NoExit)
    /\ UNCHANGED <<root, made, ENV, ARGS, trace, regs, ops>>

NextWrite ==
    \/ \E s \in LifeSets : SetOp(s[1], s[2], s[3])
    \/ \E rot \in 0..(MapOrders - 1), failAt \in 0..MaxFailAt : WriteConfigFileOp(rot, failAt)

SpecWrite == InitWrite /\ [][NextWrite]_vars

-----------------------------------------------------------------------------
(* the names given to New *)

\* the length up to which every name over NameAlphabet is given to New
MaxNameLen == 4

NameAlphabet == {"A", "2", "a", "_"}

\* the names given to New: every text over NameAlphabet of at most MaxNameLen
\* characters, and five others
NameInputs ==
    UNION {[1..n -> NameAlphabet] : n \in 0..MaxNameLen}
    \cup {<<"A","B","_","C","D","2">>, <<"a","b","_","c","d">>, <<"A","_","B","C">>,
          <<"_","A","B">>, <<"A","B","_">>}

InitNames ==
    /\ root = Node(<<>>, <<>>)
    /\ made = FALSE
    /\ ENV = <<>> /\ ARGS = <<>> /\ disk = NoDisk
    /\ res = Result("init", Root, 0, <<>>, NoErr, NoErr, NoExit)
    /\ trace = <<>>
    /\ rt = NoRt
    /\ regs = 0
    /\ ops = 0

NextNames == \E app \in NameInputs : NewOp(app)

SpecNames == InitNames /\ [][NextNames]_vars

-----------------------------------------------------------------------------
(* the registries of a configured program under every operation *)

\* registrations on the configured program, then loads, sets and resets
NextRegistry ==
    \/ \E ref \in Refs, name \in SubNames : SubOp(ref, name)
    \/ \E ref \in Refs : \E d \in DeclsFor(ref) : MkOptionOp(ref, d)
    \/ \E rot \in 0..(MapOrders - 1) : LoadOp(rot)
    \/ \E s \in LifeSets : SetOp(s[1], s[2], s[3])
    \/ \E ref \in Refs : ResetOp(ref)
    \/ \E ref \in Refs : LoadDefaultsOp(ref)
    \/ \E ref \in Refs : MergeEnvOp(ref)

SpecRegistry == InitLife /\ [][NextRegistry]_vars

-----------------------------------------------------------------------------
(* claims about registration and the merge pipeline *)

EnvPort == <<"D","E","M","O","_","C","O","N","F","I","G","_","P","O","R","T">>

\* the value a raw text stands for under a declared type, written out for the
\* raw texts of the inputs
Int32(n) == Val("int32", n, <<>>)

\* a value has the dynamic type its option declares
HasDeclaredType(o, v) ==
    CASE o.Type = "bool"     -> v.t = "bool"
      [] o.Type = "int32"    -> v.t = "int32"
      [] o.Type = "float32"  -> v.t = "float32"
      [] o.Type = "string"   -> v.t = "string"
      [] o.Type = "json"     -> v.t = "string"
      [] o.Type = "datetime" -> v.t = "time"
      [] OTHER               -> FALSE

\* C1: after a Load, a key set by a default and by an environment variable
\* (and by no later stage) holds the environment value and has two locations,
\* the printed default and then the name of the variable.
C1_EnvOverridesDefault ==
    ( /\ res.op = "Load"
      /\ Has(root.spec, PORT) /\ root.spec[PORT].Type = "int32"
      /\ root.spec[PORT].Default = Int32(80)
      /\ ENV = << <<"H","O","M","E","=","/","r">>, <<"D","E","M","O","_","C","O","N","F","I","G","_","P","O","R","T","=","8","0","8","0">> >>
      /\ res.args = <<>> /\ disk = NoDisk )
    => /\ res.err = NoErr
       /\ Has(root.values, PORT) /\ root.values[PORT] = Int32(8080)
       /\ Locations(root, PORT) = << <<"8","0">>, EnvPort >>

\* the user files of the inputs that are malformed for the node: one with a
\* key no option is registered for, one for another app, one whose key names
\* an unknown subcommand or an unknown option of a subcommand, and one whose
\* value is no int32
UserFileFails ==
    \/ disk["user"] \in {File(FUnknownKey), File(FBadHeader), File(FSubUnknown)}
    \/ /\ disk["user"] = File(FBadValueLast)
       /\ (Has(root.spec, PORT) => root.spec[PORT].Type = "int32")

\* C2: when a stage of Load fails, Load returns an error and the later stages
\* do not run: with a malformed user file the load ends in the user stage.
C2_FailedStageAborts ==
    (res.op = "Load" /\ ~disk["global"].exists /\ UserFileFails)
    => (res.err # NoErr /\ trace = <<"defaults", "global", "user">>)

MissingKeys(c) ==
    {k \in DOMAIN c.spec : c.spec[k].Required /\ c.spec[k].Default = Nil /\ ~Has(c.values, k)}

\* the kinds of the errors the stages of Load return
StageErrors ==
    {"can't merge file", "InvalidConfigEnv", "InvalidConfigFlag", "EmptyValueError",
     "ErrDoubleOption"}

\* C3: Load returns nil only when no required option without default is
\* missing and every value has the type of its option; and when the stages
\* pass and the values are valid but a required option is missing, Load
\* returns a missing-option error that names a missing key.
C3_LoadValidates ==
    res.op = "Load" =>
       /\ res.err = NoErr =>
             /\ MissingKeys(root) = {}
             /\ \A k \in DOMAIN root.values :
                   Has(root.spec, k) /\ HasDeclaredType(root.spec[k], root.values[k])
       /\ ( /\ res.err.kind \notin StageErrors
            /\ MissingKeys(root) # {}
            /\ \A k \in DOMAIN root.values :
                  Has(root.spec, k) /\ HasDeclaredType(root.spec[k], root.values[k]) )
          => (res.err.kind = "MissingOptionError" /\ res.err.key \in MissingKeys(root))

\* C3 happens: a load succeeded on a node with a required option without
\* default, which an argument set.
C3_Witness ==
    /\ res.op = "Load" /\ res.err = NoErr
    /\ \E k \in DOMAIN root.spec :
          /\ root.spec[k].Required /\ root.spec[k].Default = Nil
          /\ Has(root.values, k) /\ Len(res.args) > 0

\* C4: app "demo" can be made, the required int32 option PORT with shortflag
\* p can be registered without a default, a load with the argument -p=8080
\* gives PORT = 8080 with one location, and a load without it reports PORT
\* as missing.
C4_DemoExample ==
    /\ (res.op = "New" /\ res.key = demo) => res.err = NoErr
    /\ (res.op = "mkOption" /\ res.decl = 2) =>
          (res.panic = NoErr /\ res.err = NoErr /\ Has(GetNode(res.ref).spec, PORT))
    /\ ( /\ res.op = "Load" /\ ENV = <<>> /\ disk = NoDisk
         /\ Has(root.spec, PORT) /\ root.spec[PORT].Required
         /\ root.spec[PORT].Default = Nil /\ root.spec[PORT].Type = "int32" )
       => /\ res.args = << <<"-","p","=","8","0","8","0">> >> =>
                /\ res.err = NoErr
                /\ Has(root.values, PORT) /\ root.values[PORT] = Int32(8080)
                /\ Len(Locations(root, PORT)) = 1
          /\ res.args = <<>> => res.err = Err("MissingOptionError", PORT)

\* C5: an option that registration accepts is not both required and given a
\* default.
C5_RequiredHasNoDefault ==
    (res.op = "mkOption" /\ res.panic = NoErr /\ res.err = NoErr)
    => LET o == GetNode(res.ref).spec[res.key]
       IN  o.Required => o.Default = Nil

\* C6: registering an option whose name or whose shortflag the node already
\* has does not complete normally.
C6_DuplicateRegistrationFails ==
    [][ ( /\ res'.op = "mkOption" /\ regs' = regs + 1
          /\ LET c == GetNode(res'.ref)
                 d == Decls[res'.decl]
             IN  \/ Has(c.spec, ToUpper(d.name))
                 \/ /\ d.mods.shortflag # <<>>
                    /\ \E k \in DOMAIN c.spec : c.spec[k].Shortflag = ToUpper(d.mods.shortflag) )
        => res'.panic # NoErr ]_vars

\* C8: MergeEnv on a node with the int32 option PORT and the environment entry
\* DEMO_CONFIG_PORT=8080 returns no error, sets PORT to 8080 and appends the
\* name of the variable to the locations of PORT.
C8_MergeEnvSetsOption ==
    ( /\ res.op = "MergeEnv" /\ res.ref = Root /\ root.app = DEMO
      /\ \E i \in 1..Len(ENV) : ENV[i] = <<"D","E","M","O","_","C","O","N","F","I","G","_","P","O","R","T","=","8","0","8","0">>
      /\ Has(root.spec, PORT) /\ root.spec[PORT].Type = "int32" )
    => /\ res.err = NoErr
       /\ Has(root.values, PORT) /\ root.values[PORT] = Int32(8080)
       /\ Locations(root, PORT) # <<>>
       /\ Locations(root, PORT)[Len(Locations(root, PORT))] = EnvPort

\* C9: when Load reaches the arguments and the first argument is, ignoring
\* case, the name of a registered subcommand, that child is the current
\* subcommand after the load.
C9_SubcommandDispatch ==
    ( /\ res.op = "Load" /\ Len(trace) > 5
      /\ Len(res.args) > 0
      /\ \E n \in DOMAIN root.subcommands : ToUpper(n) = ToUpper(res.args[1]) )
    => (root.currentSub # NoSub /\ ToUpper(root.currentSub) = ToUpper(res.args[1]))

\* C10: with a subcommand selected by the first argument, an argument whose
\* key only the subcommand registers is accepted and set on the subcommand.
C10_SubcommandScoping ==
    ( /\ res.op = "Load" /\ ENV = <<>> /\ disk = NoDisk
      /\ res.args = << SUB, <<"-","-","f","o","o","=","1">> >>
      /\ Has(root.subcommands, SUB) /\ Has(root.subcommands[SUB].spec, FOO)
      /\ ~Has(root.spec, FOO) /\ MissingKeys(root) = {} )
    => /\ res.err = NoErr
       /\ Has(root.subcommands[SUB].values, FOO)
       /\ root.subcommands[SUB].values[FOO] = Int32(1)

\* the values a node and its children hold, without the keys that hold nil
HasValues(vs) == DOMAIN vs.root # {} \/ \E n \in DOMAIN vs.subs : DOMAIN vs.subs[n] # {}

\* C7: the values a node holds after successful calls of Set, written with
\* WriteConfigFile and parsed with Merge into a fresh node with the same app,
\* version and options, come back identical, without an error.
C7_RoundTrip ==
    (rt.done /\ HasValues(rt.orig))
    => /\ rt.werr = NoErr /\ rt.written
       /\ rt.err = NoErr
       /\ rt.parsed = rt.orig

-----------------------------------------------------------------------------
(* claims about arguments, Set and the provenance of values *)

AllStages == <<"defaults", "global", "user", "local", "env", "args">>

\* the argument lists of the inputs that address one option twice: the
\* option, whether a shortflag is used, the first argument's key and the
\* text of its value
TwiceArgs ==
    { [args |-> << <<"-","-","p","o","r","t","=","1">>, <<"-","-","p","o","r","t","=","2">> >>,
       key |-> PORT, short |-> FALSE, argKey |-> <<"-","-","p","o","r","t">>, first |-> <<"1">>],
      [args |-> << <<"-","p","=","1">>, <<"-","p","=","2">> >>,
       key |-> NAME, short |-> TRUE, argKey |-> <<"-","p">>, first |-> <<"1">>],
      [args |-> << <<"-","p","=","1">>, <<"-","-","n","a","m","e","=","2">> >>,
       key |-> NAME, short |-> TRUE, argKey |-> <<"-","p">>, first |-> <<"1">>],
      [args |-> << <<"-","-","n","a","m","e","=","1">>, <<"-","p","=","2">> >>,
       key |-> NAME, short |-> TRUE, argKey |-> <<"-","-","n","a","m","e">>, first |-> <<"1">>] }

\* the value a node holds after the text "1" was set on an option
One(o) == IF o.Type = "int32" THEN Int32(1) ELSE Val("string", 0, <<"1">>)

\* C11: when one argument list addresses a registered option twice (twice by
\* name, twice by shortflag, or once by each), the load ends in the argument
\* stage with a double-option error for the option's name, and the option
\* holds the value of the first occurrence, set from the first argument.
C11_DoubleArgumentRejected ==
    \A t \in TwiceArgs :
       ( /\ res.op = "Load" /\ res.args = t.args /\ trace = AllStages
         /\ Has(root.spec, t.key) /\ root.spec[t.key].Type \in {"int32", "string"}
         /\ t.short => (Has(root.shortflags, <<"P">>) /\ root.shortflags[<<"P">>] = t.key) )
       => /\ res.err = Err("ErrDoubleOption", t.key)
          /\ Has(root.values, t.key) /\ root.values[t.key] = One(root.spec[t.key])
          /\ Locations(root, t.key) # <<>>
          /\ Locations(root, t.key)[Len(Locations(root, t.key))] = t.argKey

\* C11 happens: a load was given -p=1 and then --name=2 on a node whose
\* shortflag p stands for NAME, and it ended with a double-option error.
C11_Witness ==
    /\ res.op = "Load"
    /\ res.args = << <<"-","p","=","1">>, <<"-","-","n","a","m","e","=","2">> >>
    /\ Has(root.shortflags, <<"P">>) /\ root.shortflags[<<"P">>] = NAME
    /\ res.err.kind = "ErrDoubleOption"
    /\ Has(root.values, NAME)

\* C12: an argument list that consists of --help or of --version is not
\* data: the load that reaches the argument stage exits on that key and
\* reports no error.
C12_ReservedKeysExit ==
    ( /\ res.op = "Load" /\ trace = AllStages
      /\ res.args \in { << <<"-","-","h","e","l","p">> >>,
                        << <<"-","-","v","e","r","s","i","o","n">> >> } )
    => (res.exit # NoExit /\ res.err = NoErr)

\* the calls of Set of the inputs that must fail, with the kind of the error:
\* a key that violates the name grammar, keys the node has no option for,
\* and texts that are no value of the declared type
FailingSets ==
    { <<Root, <<"p","o","r","t">>, <<"7">>, "InvalidNameError">>,
      <<Root, FOO, <<"1","2">>, "UnknownOptionError">>,
      <<SUB, PORT, <<"7">>, "UnknownOptionError">>,
      <<Root, PORT, <<"a","b","c">>, "InvalidValueError">>,
      <<Root, DEBUG, <<"n","o","t","a","b","o","o","l">>, "InvalidValueError">> }

\* C13: a Set with an invalid key, an unknown key or a text that is no value
\* of the option's type returns the error of that kind, and a Set that
\* returns an error leaves the values and the locations of every node as
\* they were.
C13_FailedSetStoresNothing ==
    [][ /\ \A s \in FailingSets :
              SetOp(s[1], s[2], s[3]) => res'.err = Err(s[4], s[2])
        /\ (res'.op = "Set" /\ ops' = ops + 1 /\ res'.err # NoErr) =>
              /\ root'.values = root.values /\ root'.locations = root.locations
              /\ DOMAIN root'.subcommands = DOMAIN root.subcommands
              /\ \A n \in DOMAIN root.subcommands :
                    /\ root'.subcommands[n].values = root.subcommands[n].values
                    /\ root'.subcommands[n].locations = root.subcommands[n].locations ]_vars

\* C13 happens: a Set of "notabool" on the bool option failed on a node that
\* holds a value.
C13_Witness ==
    /\ res.op = "Set" /\ res.key = DEBUG /\ res.err.kind = "InvalidValueError"
    /\ DOMAIN root.values # {} /\ ~Has(root.values, DEBUG)

\* a node of a tree of nodes
NodeIn(r, ref) == IF ref = Root THEN r ELSE r.subcommands[ref]

\* the value a node of a tree holds for a key, Nil when it holds none
ValueIn(r, ref, k) == IF Has(NodeIn(r, ref).values, k) THEN NodeIn(r, ref).values[k] ELSE Nil

\* the options of the configured program
LifeKeys(ref) == IF ref = Root THEN {PORT, NAME} ELSE {FOO}

\* the value a file of the inputs gives to a key of a node, Nil when the file
\* has no line for the key
FileValue(f, ref, k) ==
    CASE f = File(FGlobal) /\ ref = Root /\ k = PORT -> Int32(8085)
      [] f = File(FGood) /\ ref = Root /\ k = PORT   -> Int32(8081)
      [] f = File(FGood) /\ ref = Root /\ k = NAME   -> Val("string", 0, <<"b","o","b">>)
      [] f = File(FLocal) /\ ref = Root /\ k = PORT  -> Int32(8084)
      [] f = File(FSub) /\ ref = Root /\ k = PORT    -> Int32(8083)
      [] f = File(FSub) /\ ref = SUB /\ k = FOO      -> Int32(12)
      [] f = File(FEmptyLast) /\ ref = Root /\ k = PORT -> Int32(8081)
      [] f = File(FComment) /\ ref = Root /\ k = PORT -> Int32(8081)
      [] f = File(FComment) /\ ref = Root /\ k = NAME ->
            Val("string", 0, <<"b","o","b","\n","m","o","r","e">>)
      [] OTHER -> Nil

FileEvent(stage, ref, k) ==
    IF FileValue(disk[stage], ref, k) = Nil THEN <<>>
    ELSE << [loc |-> PathOf(stage), val |-> FileValue(disk[stage], ref, k)] >>

\* the value-setting events of one Load on a key of a node, in the order of
\* the stages: the default, the files, the argument
LoadEvents(ref, k) ==
    (IF ref = Root /\ k = PORT THEN << [loc |-> <<"8","0">>, val |-> Int32(80)] >> ELSE <<>>)
    \o FileEvent("global", ref, k) \o FileEvent("user", ref, k) \o FileEvent("local", ref, k)
    \o (IF ref = Root /\ k = PORT /\ ARGS = << <<"-","p","=","8","0","8","0">> >>
        THEN << [loc |-> <<"-","p">>, val |-> Int32(8080)] >> ELSE <<>>)

\* the calls of Set of the configured program that succeed, with the value
\* the text stands for
GoodSets ==
    { <<Root, PORT, <<"7">>, Int32(7)>>,
      <<Root, NAME, <<"b","o","b">>, Val("string", 0, <<"b","o","b">>)>>,
      <<SUB, FOO, <<"4","2">>, Int32(42)>> }

\* C14: every successful value-setting event on a key appends one location
\* to the locations of the key and makes its value the value of the key,
\* and leaves the locations and values of the other keys alone: a Load
\* (which resets the root node first) appends the locations of its events in
\* the order default, files, argument; a Set appends its location;
\* LoadDefaults appends the printed default; and a key holds a value exactly
\* when it has a location.
C14_LocationsAppendOnly ==
    [][ \A ref \in {Root, SUB} : \A k \in LifeKeys(ref) :
          LET before == Locations(NodeIn(root, ref), k)
              after  == Locations(NodeIn(root', ref), k)
              ev     == LoadEvents(ref, k)
              same   == after = before /\ ValueIn(root', ref, k) = ValueIn(root, ref, k)
          IN  /\ (ValueIn(root', ref, k) # Nil) <=> (after # <<>>)
              /\ (res'.op = "Load" /\ ops' = ops + 1 /\ res'.err = NoErr) =>
                    /\ after = (IF ref = Root THEN <<>> ELSE before)
                                  \o [i \in 1..Len(ev) |-> ev[i].loc]
                    /\ ev # <<>> => ValueIn(root', ref, k) = ev[Len(ev)].val
                    /\ (ev = <<>> /\ ref # Root) =>
                          ValueIn(root', ref, k) = ValueIn(root, ref, k)
              /\ \A s \in GoodSets : SetOp(s[1], s[2], s[3]) =>
                    IF s[1] = ref /\ s[2] = k
                    THEN after = Append(before, SetLocation) /\ ValueIn(root', ref, k) = s[4]
                    ELSE same
              /\ \A r \in {Root, SUB} : LoadDefaultsOp(r) =>
                    IF r = Root /\ ref = Root /\ k = PORT
                    THEN after = Append(before, <<"8","0">>)
                         /\ ValueIn(root', ref, k) = Int32(80)
                    ELSE same ]_vars

\* C14 happens: after a Load that set PORT from the default, three files and
\* an argument, a Set of PORT succeeded and PORT has six locations.
C14_Witness ==
    /\ res.op = "Set" /\ res.key = PORT /\ res.err = NoErr
    /\ Len(Locations(root, PORT)) = 6
    /\ root.values[PORT] = Int32(7)

\* C15: a Load that follows a Load, with the same files, environment and
\* arguments, leaves every key of the root node and of its child with the
\* values and the locations the first Load gave it.
C15_ReloadIsIdempotent ==
    [][ ( /\ res.op = "Load" /\ res.err = NoErr
          /\ res'.op = "Load" /\ ops' = ops + 1
          /\ ENV' = ENV /\ ARGS' = ARGS /\ disk' = disk )
        => \A ref \in {Root, SUB} : \A k \in LifeKeys(ref) :
              /\ ValueIn(root', ref, k) = ValueIn(root, ref, k)
              /\ Locations(NodeIn(root', ref), k) = Locations(NodeIn(root, ref), k) ]_vars

\* C16: Sub with a valid name on a root node, whatever its app name, is not
\* rejected: it registers under the name a child that has the version of the
\* parent and the identity parent_name.
C16_SubOnRootSucceeds ==
    (res.op = "Sub" /\ res.ref = Root /\ res.key = SUB)
    => /\ res.err = NoErr
       /\ Has(root.subcommands, SUB)
       /\ root.subcommands[SUB].version = root.version
       /\ root.subcommands[SUB].app = root.app \o <<"_">> \o SUB

\* C17: a Load whose user file has two lines for the key PORT fails with the
\* double-option error of Merge, and PORT does not hold the value of the
\* second line.
C17_DoubleKeyRejected ==
    \A f \in { [text |-> FTwice, second |-> Int32(8082)],
               [text |-> FTwiceShort, second |-> Int32(6)] } :
       (res.op = "Load" /\ disk["user"] = File(f.text))
       => /\ res.err.kind = "ErrDoubleOption"
             \/ (res.err.kind = "can't merge file" /\ res.err.inner = "ErrDoubleOption")
          /\ ValueIn(root, Root, PORT) # f.second

\* C18: a Load whose user file has a line for the key NAME with no value, in
\* the middle of the file or as its last line, fails with the empty-value
\* error of Merge, and NAME holds no value.
C18_EmptyValueRejected ==
    (res.op = "Load" /\ disk["user"] \in {File(FEmptyMid), File(FEmptyLast)})
    => /\ res.err.kind = "EmptyValueError"
          \/ (res.err.kind = "can't merge file" /\ res.err.inner = "EmptyValueError")
       /\ ~Has(root.values, NAME)

-----------------------------------------------------------------------------
(* claims about saving *)

\* the write steps of a WriteConfigFile on a node: none when the node holds
\* no value, else the header, three for each value of the node, and for each
\* child the banner and three for each of its values
WriteSteps(c) ==
    IF DOMAIN c.values = {} THEN 0
    ELSE 1 + 3 * Cardinality(DOMAIN c.values)
           + (IF Has(c.subcommands, SUB)
              THEN 1 + 3 * Cardinality(DOMAIN c.subcommands[SUB].values) ELSE 0)

\* C19: when a write step of WriteConfigFile fails (the header, a value of
\* the root node, or a step of the block of the child), the call returns an
\* error and the user file is afterwards what it was before the call: absent
\* if it was absent, empty if it was empty, else with the same text.
C19_FailedWriteRestores ==
    [][ \A rot \in 0..(MapOrders - 1), failAt \in 1..MaxFailAt :
           (WriteConfigFileOp(rot, failAt) /\ failAt <= WriteSteps(root))
           => (res'.err # NoErr /\ disk'["user"] = disk["user"]) ]_vars

\* C20: a WriteConfigFile in which no write fails leaves no file exactly when
\* neither the root node nor its child holds a value; when only the child
\* holds a value the file is written.
C20_DeletesOnlyWithoutValues ==
    [][ \A rot \in 0..(MapOrders - 1) :
           WriteConfigFileOp(rot, 0)
           => /\ res'.err = NoErr
              /\ disk'["user"].exists <=> HasValues(ValueSet(root)) ]_vars

-----------------------------------------------------------------------------
(* claims about names, shortflags and the registries of a node *)

\* a name of words of two or more characters, joined by "_", each word a
\* capital letter followed by capital letters and digits: stated on the
\* positions of the text
GoodName(s) ==
    /\ Len(s) > 0
    /\ s[Len(s)] # "_"
    /\ \A i \in 1..Len(s) :
          /\ s[i] \in {UpperSeq[j] : j \in 1..26} \cup {DigitSeq[j] : j \in 1..10} \cup {"_"}
          /\ (i = 1 \/ s[i - 1] = "_") =>
                /\ s[i] \in {UpperSeq[j] : j \in 1..26}
                /\ i < Len(s)
                /\ s[i + 1] # "_"

\* C21: New, which validates its app name with ValidateName, accepts a name
\* exactly when it is non-empty and each of its words, separated by "_", is a
\* capital letter followed by one or more capital letters or digits; AB_CD2
\* is accepted and A_BC, ab_cd, _AB, AB_ and the empty name are rejected.
C21_ValidateName ==
    res.op = "New" =>
       /\ (res.err = NoErr) <=> GoodName(res.key)
       /\ res.err # NoErr => res.err = Err("ErrInvalidAppName", res.key)
       /\ res.key = <<"A","B","_","C","D","2">> => res.err = NoErr
       /\ res.key \in { <<"A","_","B","C">>, <<"a","b","_","c","d">>, <<"_","A","B">>,
                        <<"A","B","_">>, <<>> } => res.err # NoErr

\* C21 happens: New was given AB_CD2 and made the node.
C21_Witness ==
    /\ res.op = "New" /\ res.key = <<"A","B","_","C","D","2">>
    /\ made /\ root.app = <<"A","B","_","C","D","2">>

\* the entries of a registry m are entries of the registry n
Kept(m, n) == \A k \in DOMAIN m : Has(n, k) /\ n[k] = m[k]

\* C22: no operation on a configured program removes or replaces an entry of
\* the spec or the shortflags of a node, or removes a child or replaces it
\* with a node that lacks an option or a shortflag the child had.
C22_RegistriesAppendOnly ==
    [][ /\ Kept(root.spec, root'.spec)
        /\ Kept(root.shortflags, root'.shortflags)
        /\ \A n \in DOMAIN root.subcommands :
              /\ Has(root'.subcommands, n)
              /\ Kept(root.subcommands[n].spec, root'.subcommands[n].spec)
              /\ Kept(root.subcommands[n].shortflags, root'.subcommands[n].shortflags) ]_vars

\* C23: in every node, every shortflag stored in a registered option and
\* every key of the shortflags map is empty or one lowercase letter, and no
\* two options of the node carry the same shortflag.
C23_ShortflagsLowercaseUnique ==
    \A ref \in Refs :
       /\ \A k \in DOMAIN GetNode(ref).spec :
             \/ GetNode(ref).spec[k].Shortflag = <<>>
             \/ /\ Len(GetNode(ref).spec[k].Shortflag) = 1
                /\ GetNode(ref).spec[k].Shortflag[1] \in {LowerSeq[j] : j \in 1..26}
       /\ \A f \in DOMAIN GetNode(ref).shortflags :
             Len(f) = 1 /\ f[1] \in {LowerSeq[j] : j \in 1..26}
       /\ \A k1, k2 \in DOMAIN GetNode(ref).spec :
             (k1 # k2 /\ GetNode(ref).spec[k1].Shortflag # <<>>)
             => GetNode(ref).spec[k1].Shortflag # GetNode(ref).spec[k2].Shortflag

\* C30: in every node, each registered option with a shortflag is the option
\* the shortflags map gives for that shortflag, and each entry of the
\* shortflags map names a registered option that carries the shortflag.
C30_ShortflagsMatchSpec ==
    \A ref \in Refs :
       /\ \A k \in DOMAIN GetNode(ref).spec :
             GetNode(ref).spec[k].Shortflag # <<>>
             => /\ Has(GetNode(ref).shortflags, GetNode(ref).spec[k].Shortflag)
                /\ GetNode(ref).shortflags[GetNode(ref).spec[k].Shortflag] = k
       /\ \A f \in DOMAIN GetNode(ref).shortflags :
             /\ Has(GetNode(ref).spec, GetNode(ref).shortflags[f])
             /\ GetNode(ref).spec[GetNode(ref).shortflags[f]].Shortflag = f

\* C29: in every node the keys that hold a value are the keys that have
\* locations, these are keys of registered options, no key has an empty
\* list of locations, and IsSet holds for an option exactly when its
\* Locations are not empty.
C29_ValuesLocationsSpec ==
    \A ref \in Refs :
       /\ DOMAIN GetNode(ref).values = DOMAIN GetNode(ref).locations
       /\ DOMAIN GetNode(ref).values \subseteq DOMAIN GetNode(ref).spec
       /\ \A k \in DOMAIN GetNode(ref).locations : GetNode(ref).locations[k] # <<>>
       /\ \A k \in DOMAIN GetNode(ref).spec :
             IsSet(GetNode(ref), k) <=> (Locations(GetNode(ref), k) # <<>>)

\* C29 happens: after a registration and a Load, a Set succeeded on a node
\* that holds values for some of its options and none for another.
C29_Witness ==
    /\ regs > 0 /\ ops = 2
    /\ res.op = "Set" /\ res.err = NoErr
    /\ Cardinality(DOMAIN root.values) >= 2
    /\ \E k \in DOMAIN root.spec : ~Has(root.values, k)
    /\ \E k \in DOMAIN root.locations : Len(root.locations[k]) >= 2

-----------------------------------------------------------------------------
(* claims about the text of config files *)

\* C24: when the user file fails at its second line for PORT, the Load
\* returns an error, nothing of that file is stored, and the default of the
\* earlier stage remains: PORT is 80 with the printed default as its only
\* location.
C24_NoPartialStage ==
    (res.op = "Load" /\ disk["user"] = File(FTwice))
    => /\ res.err # NoErr
       /\ ValueIn(root, Root, PORT) = Int32(80)
       /\ Locations(root, PORT) = << <<"8","0">> >>

\* C25: the value of a key starts with everything after the "=" of its
\* line, also when that is one character: a Load whose user file has the
\* lines $PORT=5 and $NAME=bob succeeds with PORT = 5 and NAME = "bob".
C25_ValueOfAnyLength ==
    (res.op = "Load" /\ disk["user"] = File(FShort))
    => /\ res.err = NoErr
       /\ ValueIn(root, Root, PORT) = Int32(5)
       /\ ValueIn(root, Root, NAME) = Val("string", 0, <<"b","o","b">>)

\* C26, as stated: a line that follows a comment line is not part of the
\* value of the key before the comment: a Load whose user file has the lines
\* $NAME=bob, # note, more, $PORT=8081 gives NAME = "bob".
C26_CommentEndsValue ==
    (res.op = "Load" /\ disk["user"] = File(FComment))
    => ValueIn(root, Root, NAME) = Val("string", 0, <<"b","o","b">>)

\* C26, amended: a comment line is skipped and does not end the value: the
\* line after the comment is appended, after a newline, to the value of the
\* key before the comment, which ends at the next line that starts with "$"
\* or at the end of the file; the Load of that file succeeds with
\* NAME = "bob\nmore" and PORT = 8081, each with the user file as location.
C26_CommentIsSkipped ==
    (res.op = "Load" /\ disk["user"] = File(FComment))
    => /\ res.err = NoErr
       /\ ValueIn(root, Root, NAME) = Val("string", 0, <<"b","o","b","\n","m","o","r","e">>)
       /\ Locations(root, NAME) = << PathOf("user") >>
       /\ (res.args = <<>> => ValueIn(root, Root, PORT) = Int32(8081))

\* C26 happens: a Load read the file with the comment inside the value and
\* stored a value of two lines for NAME.
C26_Witness ==
    /\ res.op = "Load" /\ disk["user"] = File(FComment) /\ res.err = NoErr
    /\ Has(root.values, NAME) /\ ContainsCh(root.values[NAME].s, "\n")

\* C28: an option of the root node whose name has two words is set from a
\* config file: a Load whose user file has the line $MAX_SIZE=42 succeeds
\* and stores 42 under MAX_SIZE on the root node.
C28_MultiWordKeyFromFile ==
    (res.op = "Load" /\ disk["user"] = File(FMaxSize) /\ Has(root.spec, MAX_SIZE))
    => /\ res.err = NoErr
       /\ ValueIn(root, Root, MAX_SIZE) = Int32(42)

\* a text occurs in a text
Contains(s, sub) ==
    \E i \in 1..(Len(s) - Len(sub) + 1) : SubSeq(s, i, i + Len(sub) - 1) = sub

\* C27: in a written file the value of the json option EXTRA is on the line
\* after $EXTRA=, and the value of the string option NAME is on the line
\* after $NAME= when it has more than 15 characters or a newline and on the
\* line of $NAME= otherwise.
C27_JsonOnNextLine ==
    (res.op = "WriteConfigFile" /\ res.err = NoErr /\ disk["user"].exists)
    => /\ Has(root.values, EXTRA) =>
             Contains(disk["user"].text,
                      <<"$","E","X","T","R","A","=","\n">> \o root.values[EXTRA].s)
       /\ Has(root.values, NAME) =>
             Contains(disk["user"].text,
                      <<"$","N","A","M","E","=">>
                      \o (IF Len(root.values[NAME].s) > 15 \/ ContainsCh(root.values[NAME].s, "\n")
                          THEN <<"\n">> ELSE <<>>)
                      \o root.values[NAME].s)

====
